---- MODULE Spec2Model ----
(***************************************************************************)
(* Orchestration engine of prite36/auto-irrigation-system.                 *)
(*                                                                         *)
(* State: the MQTT client's device status store (mqtt.Client               *)
(* .deviceStatuses), the irrigation_history table, and for every           *)
(* invocation of the scheduler (a goroutine started by the trigger         *)
(* endpoint or by gocron) its position in RunAllJobsOnce / RunJobForDevice *)
(* / runDeviceJob and its locals.  Inbound status messages are dispatched  *)
(* by messageHandler between any two steps of a run.                       *)
(*                                                                         *)
(* Time is counted in seconds, relative to the start of the poll in        *)
(* progress: waitForFlag's ticker fires every TickInterval seconds and its *)
(* context expires `timeout` seconds after the poll started.               *)
(***************************************************************************)
EXTENDS Integers, Sequences, FiniteSets, TLC

\* ------------------------------------------------------------------ bounds

\* Invocations (trigger requests and scheduled firings) a goroutine of the
\* model runs one after the other.
MaxInvocations == 1
\* Calls (messages dispatched, resets) made on the store in SpecStore.
MaxClientOps == 3
\* Subscribe calls and connection events in SpecSession.
MaxSessionOps == 4
\* Calls of the notification client's send operations in SpecSlack.
MaxSlackOps == 2
\* The notification client's clock runs for MaxSlackMinutes minutes.
MaxSlackMinutes == 5
\* Error texts of the transport are made of up to MaxErrAtoms pieces, or of two
\* spellings of a token.
MaxErrAtoms == 2
\* Task definitions carry timeoutMinutes in 0..MaxTimeoutMinutes.
MaxTimeoutMinutes == 1
\* A poll is followed tick by tick for its first MaxPollTicks ticks and for its
\* last one; the ticks in between are taken in one step (waitIdle), with no
\* message dispatched among them.
MaxPollTicks == 2

\* ------------------------------------------------------- program constants

\* time.NewTicker(2 * time.Second)
TickInterval == 2
\* waitForFlag(device.ID, 2*time.Minute, ...) in runCalibration, in seconds
CalibTimeout == 120
\* time.Minute, in seconds
SecondsPerMinute == 60
\* IrrigationHistory.Status: `gorm:"type:varchar(20);not null"`
StatusColumnWidth == 20
\* backoffDuration := 1 * time.Minute
ShortBackoffMinutes == 1
\* backoffDuration = 5 * time.Minute
LongBackoffMinutes == 5

\* --------------------------------------------------------- configuration

TypeSprinkler == "iot_sprinkler"
TypePlantPot == "iot_plant_pot"

\* What the configuration file fixes for a behaviour: the sprinkler's task
\* list (task_ids) is empty or names two tasks.
VARIABLE noTasks

\* cfg.Devices: a plant pot, a device of an unknown type, a sprinkler with two
\* tasks (or with none) and a second device of an unknown type, so that every
\* kind of job outcome has a device configured after it.
Devices ==
    << [ID |-> "pot1", Type |-> TypePlantPot, ScheduleTimes |-> <<"07:00">>,
        ScheduleDuration |-> 10, TaskIDs |-> << >>],
       [ID |-> "odd1", Type |-> "iot_lamp", ScheduleTimes |-> << >>,
        ScheduleDuration |-> 0, TaskIDs |-> << >>],
       [ID |-> "spr1", Type |-> TypeSprinkler, ScheduleTimes |-> <<"06:00">>,
        ScheduleDuration |-> 0,
        TaskIDs |-> IF noTasks THEN << >> ELSE <<"zone1", "zone2">>],
       [ID |-> "odd2", Type |-> "iot_lamp", ScheduleTimes |-> <<" ">>,
        ScheduleDuration |-> 0, TaskIDs |-> << >>] >>

DeviceIDs == {Devices[i].ID : i \in 1..Len(Devices)}

\* Device IDs a run-single request may name: the configured ones and one that
\* is not configured.
RequestIDs == DeviceIDs \cup {"spr9"}

\* The goroutines that may run the scheduler's entry points.
RunIds == {1, 2}

\* ---------------------------------------------------------- status store

\* &models.DeviceStatus{DeviceID: deviceID}
ZeroStatus(deviceID) ==
    [DeviceID |-> deviceID,
     HealthCheck |-> FALSE,
     SprinklerPosition |-> 0,
     ValvePosition |-> 0,
     SprinklerCalibComplete |-> FALSE,
     ValveCalibComplete |-> FALSE,
     ValveIsAtTarget |-> FALSE,
     TaskCurrentIndex |-> 0,
     TaskCurrentCount |-> 0,
     TaskAllComplete |-> FALSE,
     TaskArray |-> ""]

\* sync.Map.Store
MapStore(m, k, v) == [x \in DOMAIN m \cup {k} |-> IF x = k THEN v ELSE m[x]]

\* What a caller gets for a nil *DeviceStatus.
NilStatus == [nil |-> TRUE]

\* GetDeviceStatus that takes a device it has no snapshot of for healthy.
GetDeviceStatusHealthy(store, deviceID) ==
    IF deviceID \in DOMAIN store THEN store[deviceID]
    ELSE [ZeroStatus(deviceID) EXCEPT !.HealthCheck = TRUE]

\* GetDeviceStatus that hands out the result of the map's Load as it is.
GetDeviceStatusLoad(store, deviceID) ==
    IF deviceID \in DOMAIN store THEN store[deviceID] ELSE NilStatus

\* Client.GetDeviceStatus: the stored snapshot, or a fresh zero one.
GetDeviceStatus(store, deviceID) ==
    IF deviceID \in DOMAIN store THEN store[deviceID] ELSE ZeroStatus(deviceID)

\* ResetDeviceStatus that replaces the whole map by the one zero snapshot.
ResetDeviceStatusAll(store, deviceID) == [x \in {deviceID} |-> ZeroStatus(deviceID)]

\* ResetDeviceStatus that stores a zero snapshot only for an ID not yet stored.
ResetDeviceStatusKeep(store, deviceID) ==
    IF deviceID \in DOMAIN store THEN store
    ELSE MapStore(store, deviceID, ZeroStatus(deviceID))

\* ResetDeviceStatus that carries the calibration flags over to the new snapshot.
ResetDeviceStatusKeepCalib(store, deviceID) ==
    MapStore(store, deviceID,
             [ZeroStatus(deviceID) EXCEPT
                !.SprinklerCalibComplete =
                    IF deviceID \in DOMAIN store
                      THEN store[deviceID].SprinklerCalibComplete ELSE FALSE,
                !.ValveCalibComplete =
                    IF deviceID \in DOMAIN store
                      THEN store[deviceID].ValveCalibComplete ELSE FALSE])

\* Client.ResetDeviceStatus: stores a fresh zero snapshot under the ID.
ResetDeviceStatus(store, deviceID) ==
    MapStore(store, deviceID, ZeroStatus(deviceID))

\* strconv.ParseBool: the accepted spellings; anything else is an error, and
\* the value returned with the error is false.
ParseBool(p) ==
    IF p \in {"1", "t", "T", "TRUE", "true", "True"} THEN [val |-> TRUE, err |-> FALSE]
    ELSE IF p \in {"0", "f", "F", "FALSE", "false", "False"} THEN [val |-> FALSE, err |-> FALSE]
    ELSE [val |-> FALSE, err |-> TRUE]

\* strconv.Atoi / strconv.ParseFloat on the payloads of the model: the
\* decimal numerals parse, anything else is an error with value 0.
ParseNum(p) ==
    IF p = "0" THEN [val |-> 0, err |-> FALSE]
    ELSE IF p = "1" THEN [val |-> 1, err |-> FALSE]
    ELSE [val |-> 0, err |-> TRUE]

\* strings.HasSuffix(msg.Topic(), "/" + suffix joined by "/"), on a topic
\* given as its "/"-separated segments.
HasSuffix(parts, suffix) ==
    /\ Len(parts) > Len(suffix)
    /\ SubSeq(parts, Len(parts) - Len(suffix) + 1, Len(parts)) = suffix

\* messageHandler that stores a fresh status object for every message, with
\* the field of the topic set in it.
messageHandlerFresh(store, parts, payload) ==
    IF Len(parts) < 3 THEN store
    ELSE
      LET fresh == ZeroStatus(parts[1])
          put(s) == MapStore(store, parts[1], s)
      IN
      IF HasSuffix(parts, <<"status", "health_check">>)
        THEN put([fresh EXCEPT !.HealthCheck = ParseBool(payload).val])
      ELSE IF HasSuffix(parts, <<"status", "sprinkler", "calib_complete">>)
        THEN put([fresh EXCEPT !.SprinklerCalibComplete = ParseBool(payload).val])
      ELSE IF HasSuffix(parts, <<"status", "valve", "calib_complete">>)
        THEN put([fresh EXCEPT !.ValveCalibComplete = ParseBool(payload).val])
      ELSE IF HasSuffix(parts, <<"status", "task", "all_complete">>)
        THEN put([fresh EXCEPT !.TaskAllComplete = ParseBool(payload).val])
      ELSE put(fresh)

\* messageHandler whose default case keeps the raw payload in the task array.
messageHandlerKeepRaw(store, parts, payload) ==
    IF Len(parts) < 3 THEN store
    ELSE MapStore(store, parts[1],
                  [(IF parts[1] \in DOMAIN store THEN store[parts[1]]
                    ELSE ZeroStatus(parts[1])) EXCEPT !.TaskArray = payload])

\* Client.messageHandler: the store after the message (topic segments, payload)
\* was dispatched.  A value that fails to parse is still assigned: Go's
\* `status.X, err = strconv.ParseBool(...)` stores the zero value returned
\* with the error.
messageHandler(store, parts, payload) ==
    IF Len(parts) < 3 THEN store
    ELSE
      LET deviceID == parts[1]
          \* LoadOrStore(deviceID, &DeviceStatus{DeviceID: deviceID})
          loaded == IF deviceID \in DOMAIN store THEN store
                    ELSE MapStore(store, deviceID, ZeroStatus(deviceID))
          status == loaded[deviceID]
          put(s) == MapStore(loaded, deviceID, s)
      IN
      IF HasSuffix(parts, <<"status", "health_check">>)
        THEN put([status EXCEPT !.HealthCheck = ParseBool(payload).val])
      ELSE IF HasSuffix(parts, <<"status", "sprinkler", "position">>)
        THEN put([status EXCEPT !.SprinklerPosition = ParseNum(payload).val])
      ELSE IF HasSuffix(parts, <<"status", "valve", "position">>)
        THEN put([status EXCEPT !.ValvePosition = ParseNum(payload).val])
      ELSE IF HasSuffix(parts, <<"status", "sprinkler", "calib_complete">>)
        THEN put([status EXCEPT !.SprinklerCalibComplete = ParseBool(payload).val])
      ELSE IF HasSuffix(parts, <<"status", "valve", "calib_complete">>)
        THEN put([status EXCEPT !.ValveCalibComplete = ParseBool(payload).val])
      ELSE IF HasSuffix(parts, <<"status", "valve", "target">>)
        THEN put([status EXCEPT !.ValveIsAtTarget = ParseBool(payload).val])
      ELSE IF HasSuffix(parts, <<"status", "task", "current_index">>)
        THEN put([status EXCEPT !.TaskCurrentIndex = ParseNum(payload).val])
      ELSE IF HasSuffix(parts, <<"status", "task", "current_count">>)
        THEN put([status EXCEPT !.TaskCurrentCount = ParseNum(payload).val])
      ELSE IF HasSuffix(parts, <<"status", "task", "all_complete">>)
        THEN put([status EXCEPT !.TaskAllComplete = ParseBool(payload).val])
      ELSE IF HasSuffix(parts, <<"status", "task", "array">>)
        THEN put([status EXCEPT !.TaskArray = payload])
      ELSE loaded

\* The status topics the scheduler reads a flag from, among those
\* SubscribeToDeviceTopics subscribes for the device's type.
FlagTopics(device) ==
    IF device.Type = TypeSprinkler
      THEN { <<device.ID, "status", "sprinkler", "calib_complete">>,
             <<device.ID, "status", "valve", "calib_complete">>,
             <<device.ID, "status", "task", "all_complete">> }
    ELSE IF device.Type = TypePlantPot
      THEN { <<device.ID, "status", "health_check">> }
    ELSE {}

\* Payloads of inbound flag messages: the two values and one that does not parse.
FlagPayloads == {"true", "false", "on"}


\* ------------------------------------------------------------------ state

VARIABLES
    deviceStatuses,   \* mqtt.Client.deviceStatuses: device ID -> snapshot
    db,               \* the irrigation_history table, one record per row
    run,              \* per goroutine: position and locals of the invocation
    trace,            \* per goroutine: the calls made by its current device job
    batch,            \* per goroutine: the entry point's notifications and the
                      \* device jobs it has finished, in order
    completionSince,  \* per goroutine: a task/all_complete message that parsed as
                      \* true was dispatched for its device since its last reset
    started,          \* per goroutine: invocations started so far
    faults,           \* the broker may fail a publish and a task file may fail to load
    notifyResult,     \* what becomes of a notification attempt of the scheduler
    touched,          \* device IDs a message was dispatched for or a reset was made for
    lastOp,           \* the last call made on the client's store, and the store before it
    clientOps,        \* calls made on the client in SpecStore / SpecSession so far
    subscribedDevices,  \* mqtt.Client.subscribedDevices: device ID -> DeviceConfig
    connected,        \* the connection to the broker is up
    issued,           \* topics a Subscribe was issued for since the connection last came up
    active,           \* topics the broker holds a subscription for (clean session)
    passed,           \* device IDs that were passed to SubscribeToDeviceTopics
    failed,           \* device IDs with a subscribe attempt that failed
    slackClient,      \* slack.Client: rateLimitBackoff, and the goroutines that
                      \* handleRateLimit started and that have not reset it yet
    clock,            \* time.Now() of the notification client, in seconds
    window,           \* the backoff window handleRateLimit started last
    lastSend,         \* the last call of a send operation and what it did
    slackOps,         \* calls of send operations so far
    reportedSince,    \* per goroutine: a task/all_complete message that parsed as
                      \* true was dispatched for its device since its task publish
    calibSince,       \* <<device ID, axis>>: the last calib_complete message of
                      \* the axis since the device's last reset parsed as true
    objects,          \* the DeviceStatus objects allocated so far, by address
    held,             \* sync.Map of SpecRace: device ID -> address of its object
    inflight,         \* per callback goroutine: the messageHandler call in progress
    lastDone,         \* the last call on the store of SpecRace that finished
    raceOps,          \* calls on the store of SpecRace so far
    lastRequest,      \* the last request TriggerTaskHandler served and its answer
    goCalls,          \* the calls TriggerTaskHandler's go statements made, in order
    requests          \* requests served so far

\* What a behaviour fixes at start-up: the environment's faults, the
\* configuration's task list and the state of the notification client.
config == <<faults, noTasks, notifyResult>>

\* The notification client, its clock and what its calls are recorded in.
slack == <<slackClient, clock, window, lastSend, slackOps>>

\* What the calls on the store are recorded in.
probe == <<lastOp, clientOps>>

\* The client's subscriptions and connection.
session == <<subscribedDevices, connected, issued, active, passed, failed>>

\* The store at the grain of its loads, stores and field writes.
race == <<objects, held, inflight, lastDone, raceOps>>

\* The trigger endpoint.
http == <<lastRequest, goCalls, requests>>

vars == <<deviceStatuses, db, run, trace, batch, completionSince, reportedSince,
          started, config, touched, calibSince, probe, session, slack, race, http>>

\* No call on the store yet.
NoOp == [op |-> "none", id |-> "", parts |-> << >>, payload |-> "",
         before |-> [d \in {} |-> ""], dropped |-> FALSE]

\* The client after NewClient: connected, nothing stored, nothing subscribed.
ClientInit ==
    /\ touched = {}
    /\ calibSince = {}
    /\ lastOp = NoOp
    /\ clientOps = 0
    /\ subscribedDevices = [d \in {} |-> ""]
    /\ connected = TRUE
    /\ issued = {}
    /\ active = {}
    /\ passed = {}
    /\ failed = {}

\* No send operation was called yet.
NoSend == [op |-> "none", err |-> << >>, before |-> 0, posted |-> FALSE,
           atPost |-> 0, ret |-> "none", after |-> 0, at |-> 0]

\* The nil *Client.
NilClient == [nil |-> TRUE]

\* c == nil
IsNil(c) == "nil" \in DOMAIN c

\* The bot tokens and channel IDs of the configuration: unset or set.
Tokens == {"", "xoxb-token"}
ChannelIDs == {"", "C0123"}

\* slack.NewClient: nil unless both the token and the channel ID are set.
NewClient(token, channelID) ==
    IF token = "" \/ channelID = "" THEN NilClient
    ELSE [rateLimitBackoff |-> 0, timers |-> {}]

\* The notification client of a configuration that may lack its credentials.
SlackInitAny ==
    /\ \E token \in Tokens, channelID \in ChannelIDs :
         slackClient = NewClient(token, channelID)
    /\ clock = 0
    /\ window = [start |-> 0, dur |-> 0]
    /\ lastSend = NoSend
    /\ slackOps = 0

\* slack.NewClient with a token and a channel: no backoff, no window.
SlackInit ==
    /\ slackClient = [rateLimitBackoff |-> 0, timers |-> {}]
    /\ clock = 0
    /\ window = [start |-> 0, dur |-> 0]
    /\ lastSend = NoSend
    /\ slackOps = 0

\* The payloads strconv.ParseBool reads as true.
TrueSpellings == {"1", "t", "T", "TRUE", "true", "True"}

\* The calibration axis a topic reports the completion of, "" when none.
CalibAxis(parts) ==
    IF Len(parts) < 3 THEN ""
    ELSE IF /\ parts[Len(parts) - 2] = "status" /\ parts[Len(parts) - 1] = "sprinkler"
            /\ parts[Len(parts)] = "calib_complete" THEN "sprinkler"
    ELSE IF /\ parts[Len(parts) - 2] = "status" /\ parts[Len(parts) - 1] = "valve"
            /\ parts[Len(parts)] = "calib_complete" THEN "valve"
    ELSE ""

\* calibSince after a message was dispatched.
CalibAfterMessage(cs, parts, payload) ==
    IF CalibAxis(parts) = "" THEN cs
    ELSE IF payload \in TrueSpellings THEN cs \cup {<<parts[1], CalibAxis(parts)>>}
    ELSE cs \ {<<parts[1], CalibAxis(parts)>>}

\* calibSince after the status of a device was reset.
CalibAfterReset(cs, deviceID) == {p \in cs : p[1] # deviceID}

\* No message was dispatched yet and no status was reset in SpecRace.
NoDone == [op |-> "none", id |-> "", parts |-> << >>, payload |-> "", addr |-> 0,
           heldAddr |-> 0, resets |-> {}]

\* A callback goroutine that runs no messageHandler call.
IdleHandler == [pc |-> "idle", parts |-> << >>, payload |-> "", addr |-> 0]

\* The callback goroutines of the MQTT client.
HandlerIds == {1, 2}

\* The client's store as NewClient leaves it: an empty sync.Map.
RaceInit ==
    /\ objects = << >>
    /\ held = [d \in {} |-> 0]
    /\ inflight = [h \in HandlerIds |-> IdleHandler]
    /\ lastDone = NoDone
    /\ raceOps = 0

\* No request was served yet.
NoRequest == [method |-> "", body |-> "none", declared |-> FALSE, code |-> 0,
              spawned |-> 0, waiting |-> 0]

\* The server with no request served.
HttpInit ==
    /\ lastRequest = NoRequest
    /\ goCalls = << >>
    /\ requests = 0

\* A goroutine that runs no invocation.
IdleRun ==
    [pc |-> "idle", kind |-> "none", reqID |-> "", devIdx |-> 0, cur |-> 0,
     hist |-> 0, taskIdx |-> 0, flag |-> "none", elapsed |-> 0, timeout |-> 0,
     pubErr |-> FALSE, err |-> "", ret |-> ""]

\* The results of the transport for a publish: acknowledged or not.
PublishResults == IF faults THEN BOOLEAN ELSE {TRUE}

\* One call made by an invocation: what it was, on what, with what result.
Ev(e, a, w, k) == [ev |-> e, arg |-> a, what |-> w, k |-> k]

Init ==
    /\ deviceStatuses = [d \in {} |-> ZeroStatus(d)]
    /\ db = << >>
    /\ run = [r \in RunIds |-> IdleRun]
    /\ trace = [r \in RunIds |-> << >>]
    /\ batch = [r \in RunIds |-> << >>]
    /\ completionSince = [r \in RunIds |-> FALSE]
    /\ reportedSince = [r \in RunIds |-> FALSE]
    /\ started = [r \in RunIds |-> 0]
    /\ faults = TRUE
    /\ noTasks = FALSE
    /\ notifyResult = "sent"
    /\ ClientInit
    /\ SlackInit
    /\ RaceInit
    /\ HttpInit

\* The device the invocation is working on.
Device(r) == Devices[run[r].cur]

\* What becomes of a notification: the client hands it to the transport and
\* it is sent, the transport reports an error, the client drops it because of
\* its backoff, or the scheduler has no client (slackClient == nil).
NotifyResults == {"sent", "error", "suppressed", "no_client"}

\* notifySlackRich that answers a notification that was not sent by publishing
\* the job's last command once more.
notifySlackRichRetry(t, severity, title) ==
    LET n == [ev |-> "notify", arg |-> severity, what |-> title, k |-> 0,
              res |-> notifyResult]
        pubs == SelectSeq(t, LAMBDA x : x.ev = "publish")
    IN IF notifyResult = "sent" \/ pubs = << >>
         THEN Append(t, n)
         ELSE Append(Append(t, n), pubs[Len(pubs)])

\* notifySlackRich that leaves out an error notification when the job has
\* already made one.
notifySlackRichDedup(t, severity, title) ==
    IF severity = "error" /\ \E i \in 1..Len(t) : t[i].ev = "notify" /\ t[i].arg = "error"
      THEN t
      ELSE Append(t, [ev |-> "notify", arg |-> severity, what |-> title, k |-> 0,
                      res |-> notifyResult])

\* Scheduler.notifySlackRich: one notification attempt of the given severity;
\* the result of SendRichMessageSafe is not looked at.
notifySlackRich(t, severity, title) ==
    Append(t, [ev |-> "notify", arg |-> severity, what |-> title, k |-> 0,
               res |-> notifyResult])

\* Publish that sends the message twice.
PublishTwice(t, path, payload, k) ==
    Append(Append(t, Ev("publish", path, payload, k)), Ev("publish", path, payload, k))

\* Client.Publish: publishes with QoS 1 and waits for the token; a failure is
\* logged and nothing is returned to the caller.
Publish(t, path, payload, k) == Append(t, Ev("publish", path, payload, k))

\* A Save whose UPDATE has no WHERE clause: every row of the table is written.
SaveHistoryAll(table, id, status, notes, ended) ==
    IF Len(status) <= StatusColumnWidth
      THEN [h \in 1..Len(table) |->
              [table[h] EXCEPT !.Status = status, !.Notes = notes,
                               !.EndedAt = IF ended THEN TRUE ELSE @]]
      ELSE table

\* A Save that never reaches the table.
SaveHistoryDropped(table, id, status, notes, ended) == table

\* db.Save(history) after the status and notes were set on the record: the
\* row is updated, unless PostgreSQL rejects the status as too long for its
\* varchar column; Save's error is not looked at.
SaveHistory(table, id, status, notes, ended) ==
    IF Len(status) <= StatusColumnWidth
      THEN [table EXCEPT ![id] = [@ EXCEPT !.Status = status, !.Notes = notes,
                                           !.EndedAt = IF ended THEN TRUE ELSE @]]
      ELSE table

\* strings.TrimSpace on the schedule times of the configuration.
TrimSpace(s) == IF s \in {" ", "  "} THEN "" ELSE s

\* ------------------------------------------------------------ entry points

\* TriggerTaskHandler / TriggerJobHandler: `go sched.RunAllJobsOnce()`, up to
\* the first device of the loop.
RunAllJobsOnce(r) ==
    /\ run[r].pc = "idle"
    /\ started[r] < MaxInvocations
    /\ started' = [started EXCEPT ![r] = @ + 1]
    /\ run' = [run EXCEPT ![r] = [IdleRun EXCEPT !.pc = "all_loop", !.kind = "all",
                                                 !.devIdx = 1]]
    /\ batch' = [batch EXCEPT ![r] =
                    notifySlackRich(<< >>, "info", "Manual Run Started")]
    /\ UNCHANGED <<deviceStatuses, db, trace, completionSince, reportedSince, config, race, http, slack, touched, calibSince, probe, session>>

\* FindDevice that takes the first configured device for any configured ID.
FindDeviceFirst(deviceID) ==
    IF \E i \in 1..Len(Devices) : Devices[i].ID = deviceID THEN 1 ELSE 0

\* The first index of cfg.Devices whose ID is deviceID, 0 if there is none.
FindDevice(deviceID) ==
    IF \E i \in 1..Len(Devices) : Devices[i].ID = deviceID
      THEN CHOOSE i \in 1..Len(Devices) :
             /\ Devices[i].ID = deviceID
             /\ \A j \in 1..(i - 1) : Devices[j].ID # deviceID
      ELSE 0

\* TriggerTaskHandler: `go sched.RunJobForDevice(req.DeviceID)`, up to the call
\* of runDeviceJob, or to the return when no device has the ID.
RunJobForDevice(r, deviceID) ==
    /\ run[r].pc = "idle"
    /\ started[r] < MaxInvocations
    /\ started' = [started EXCEPT ![r] = @ + 1]
    /\ LET i == FindDevice(deviceID)
           t == notifySlackRich(<< >>, "info", "Manual Run Started for device")
       IN IF i # 0
            THEN /\ run' = [run EXCEPT ![r] = [IdleRun EXCEPT !.pc = "job",
                                  !.kind = "single", !.reqID = deviceID, !.cur = i]]
                 /\ batch' = [batch EXCEPT ![r] = t]
            ELSE /\ run' = [run EXCEPT ![r] = [IdleRun EXCEPT !.pc = "done",
                                  !.kind = "single", !.reqID = deviceID,
                                  !.ret = "device not found"]]
                 /\ batch' = [batch EXCEPT ![r] =
                        notifySlackRich(t, "error", "Manual Run Failed for device")]
    /\ UNCHANGED <<deviceStatuses, db, trace, completionSince, reportedSince, config, race, http, slack, touched, calibSince, probe, session>>

\* Scheduler.Start: the daily job registered for device i, which has a schedule
\* time that is not blank, fires and calls runDeviceJob.
ScheduledJob(r, i) ==
    /\ run[r].pc = "idle"
    /\ started[r] < MaxInvocations
    /\ \E k \in 1..Len(Devices[i].ScheduleTimes) :
          TrimSpace(Devices[i].ScheduleTimes[k]) # ""
    /\ started' = [started EXCEPT ![r] = @ + 1]
    /\ run' = [run EXCEPT ![r] = [IdleRun EXCEPT !.pc = "job", !.kind = "scheduled",
                                                 !.cur = i]]
    /\ UNCHANGED <<deviceStatuses, db, trace, batch, completionSince, reportedSince, config, race, http, slack, touched, calibSince, probe, session>>

\* RunAllJobsOnce's loop over cfg.Devices: the next device's job, or the end of
\* the batch.
RunAllLoop(r) ==
    /\ run[r].pc = "all_loop"
    /\ IF run[r].devIdx <= Len(Devices)
         THEN /\ run' = [run EXCEPT ![r].pc = "job", ![r].cur = run[r].devIdx]
              /\ UNCHANGED batch
         ELSE /\ run' = [run EXCEPT ![r].pc = "done"]
              /\ batch' = [batch EXCEPT ![r] =
                     notifySlackRich(@, "success", "Manual Run Completed")]
    /\ UNCHANGED <<deviceStatuses, db, trace, completionSince, reportedSince, started, config, race, http, slack, touched, calibSince, probe, session>>

\* Processor with the sprinkler's processor as the default case.
ProcessorDefaultSprinkler(type) ==
    IF type = TypePlantPot THEN "plant_pot" ELSE "sprinkler"

\* The case of runDeviceJob's switch that takes the device type; the default
\* case logs a warning and calls no processor.
Processor(type) ==
    IF type = TypeSprinkler THEN "sprinkler"
    ELSE IF type = TypePlantPot THEN "plant_pot"
    ELSE "job_end"

\* runDeviceJob: the switch on device.Type.
runDeviceJob(r) ==
    /\ run[r].pc = "job"
    /\ run' = [run EXCEPT ![r].pc = Processor(Device(r).Type),
                  ![r].err = "", ![r].hist = 0, ![r].taskIdx = 0]
    /\ trace' = [trace EXCEPT ![r] = <<Ev("job", Device(r).ID, Device(r).Type, 0)>>]
    /\ UNCHANGED <<deviceStatuses, db, batch, completionSince, reportedSince, started, config, race, http, slack, touched, calibSince, probe, session>>

\* BatchResume of a loop that returns on the first device job that failed.
BatchResumeStopOnError(rec) ==
    [rec EXCEPT !.pc = "all_loop",
                !.devIdx = IF rec.err # "" THEN Len(Devices) + 1 ELSE rec.devIdx + 1,
                !.pubErr = FALSE]

\* RunAllJobsOnce's loop after runDeviceJob returned: on to the next device.
BatchResume(rec) == [rec EXCEPT !.pc = "all_loop", !.devIdx = rec.devIdx + 1,
                                !.pubErr = FALSE]

\* runDeviceJob after the processor returned: the error notification, then
\* back in the caller (the batch loop, RunJobForDevice or the scheduled job).
runDeviceJobReturn(r) ==
    /\ run[r].pc = "job_end"
    /\ trace' = [trace EXCEPT ![r] =
           IF run[r].err # "" THEN notifySlackRich(@, "error", "ERROR: Device") ELSE @]
    /\ LET b == Append(batch[r], Ev("job_end", Device(r).ID, run[r].err, 0))
       IN IF run[r].kind = "all"
            THEN /\ run' = [run EXCEPT ![r] = BatchResume(@)]
                 /\ batch' = [batch EXCEPT ![r] = b]
          ELSE IF run[r].kind = "single"
            THEN /\ run' = [run EXCEPT ![r].pc = "done", ![r].ret = "nil",
                                       ![r].pubErr = FALSE]
                 /\ batch' = [batch EXCEPT ![r] =
                        notifySlackRich(b, "success", "Manual Run Completed for device")]
          ELSE /\ run' = [run EXCEPT ![r].pc = "done", ![r].pubErr = FALSE]
               /\ batch' = [batch EXCEPT ![r] = b]
    /\ completionSince' = [completionSince EXCEPT ![r] = FALSE]
    /\ reportedSince' = [reportedSince EXCEPT ![r] = FALSE]
    /\ UNCHANGED <<deviceStatuses, db, started, config, race, http, slack, touched, calibSince, probe, session>>

\* The goroutine of a finished invocation ends.
RunExit(r) ==
    /\ run[r].pc = "done"
    /\ run' = [run EXCEPT ![r] = IdleRun]
    /\ trace' = [trace EXCEPT ![r] = << >>]
    /\ batch' = [batch EXCEPT ![r] = << >>]
    /\ UNCHANGED <<deviceStatuses, db, completionSince, reportedSince, started, config, race, http, slack, touched, calibSince, probe, session>>


\* ------------------------------------------------------- plant pot devices

\* processPlantPotDevice: the health check on the stored snapshot, then the
\* trigger command; no history record and no poll.
processPlantPotDevice(r) ==
    /\ run[r].pc = "plant_pot"
    /\ LET t0 == notifySlackRich(trace[r], "info", "Plant Pot Job Started")
           status == GetDeviceStatus(deviceStatuses, Device(r).ID)
       IN IF ~status.HealthCheck
            THEN /\ trace' = [trace EXCEPT ![r] =
                        notifySlackRich(t0, "error", "ERROR: Plant Pot")]
                 /\ run' = [run EXCEPT ![r].pc = "job_end",
                                       ![r].err = "health check failed"]
            ELSE \E ok \in PublishResults :
                 /\ trace' = [trace EXCEPT ![r] =
                        notifySlackRich(
                          Publish(t0, "cmd/trigger_solenoid_valve", "duration",
                                  Device(r).ScheduleDuration),
                          "success", "Plant Pot Job Completed")]
                 /\ run' = [run EXCEPT ![r].pc = "job_end", ![r].err = "",
                                       ![r].pubErr = ~ok]
    /\ UNCHANGED <<deviceStatuses, db, batch, completionSince, reportedSince, started, config, race, http, slack, touched, calibSince, probe, session>>

\* ------------------------------------------------------- sprinkler devices

\* processSprinklerDevice up to the call of runCalibration: the history record
\* is created with status started.
processSprinklerDevice(r) ==
    /\ run[r].pc = "sprinkler"
    /\ db' = Append(db, [Status |-> "started", StartedAt |-> TRUE, EndedAt |-> FALSE,
                         Notes |-> <<"Processing device", Device(r).ID>>])
    /\ run' = [run EXCEPT ![r].pc = "calib_sprinkler", ![r].hist = Len(db) + 1]
    /\ trace' = [trace EXCEPT ![r] = Append(@, Ev("create", "started", "", 0))]
    /\ UNCHANGED <<deviceStatuses, batch, completionSince, reportedSince, started, config, race, http, slack, touched, calibSince, probe, session>>

\* checkFunc with the task poll looking at the valve's calibration flag.
checkFuncValveForTask(flag, status) ==
    IF flag = "sprinkler" THEN status.SprinklerCalibComplete
    ELSE status.ValveCalibComplete

\* The checkFunc closures handed to waitForFlag by runCalibration (sprinkler,
\* valve) and runDeviceTasks (task).
checkFunc(flag, status) ==
    IF flag = "sprinkler" THEN status.SprinklerCalibComplete
    ELSE IF flag = "valve" THEN status.ValveCalibComplete
    ELSE status.TaskAllComplete

\* AlreadyCalibrated with one test for both axes.
AlreadyCalibratedEither(axis, status) ==
    status.SprinklerCalibComplete \/ status.ValveCalibComplete

\* runCalibration's test `currentStatus != nil && currentStatus.<Axis>CalibComplete`.
AlreadyCalibrated(axis, status) ==
    IF axis = "sprinkler" THEN status.SprinklerCalibComplete
    ELSE status.ValveCalibComplete

\* waitForFlag's entry: a context with the timeout and a fresh ticker.
StartWait(rec, flag, timeout) ==
    [rec EXCEPT !.pc = "wait", !.flag = flag, !.elapsed = 0, !.timeout = timeout]

\* The caller's locals once its poll has returned.
EndWait(rec) == [rec EXCEPT !.flag = "none", !.elapsed = 0, !.timeout = 0,
                            !.pubErr = FALSE]

\* runCalibration, sprinkler axis: skip if the snapshot reports the axis
\* calibrated, else publish the home command and start to poll.
calibrateSprinkler(r) ==
    /\ run[r].pc = "calib_sprinkler"
    /\ LET currentStatus == GetDeviceStatus(deviceStatuses, Device(r).ID)
       IN IF AlreadyCalibrated("sprinkler", currentStatus)
            THEN /\ run' = [run EXCEPT ![r].pc = "calib_valve"]
                 /\ trace' = [trace EXCEPT ![r] = Append(@, Ev("skip", "sprinkler", "", 0))]
            ELSE \E ok \in PublishResults :
                 /\ run' = [run EXCEPT ![r] =
                        StartWait([@ EXCEPT !.pubErr = ~ok], "sprinkler", CalibTimeout)]
                 /\ trace' = [trace EXCEPT ![r] = Publish(@, "cmd/sprinkler/home", "1", 0)]
    /\ UNCHANGED <<deviceStatuses, db, batch, completionSince, reportedSince, started, config, race, http, slack, touched, calibSince, probe, session>>

\* runCalibration, valve axis, on a snapshot fetched again.
calibrateValve(r) ==
    /\ run[r].pc = "calib_valve"
    /\ LET currentStatus == GetDeviceStatus(deviceStatuses, Device(r).ID)
       IN IF AlreadyCalibrated("valve", currentStatus)
            THEN /\ run' = [run EXCEPT ![r].pc = "tasks", ![r].taskIdx = 1]
                 /\ trace' = [trace EXCEPT ![r] = Append(@, Ev("skip", "valve", "", 0))]
            ELSE \E ok \in PublishResults :
                 /\ run' = [run EXCEPT ![r] =
                        StartWait([@ EXCEPT !.pubErr = ~ok], "valve", CalibTimeout)]
                 /\ trace' = [trace EXCEPT ![r] = Publish(@, "cmd/valve/home", "1", 0)]
    /\ UNCHANGED <<deviceStatuses, db, batch, completionSince, reportedSince, started, config, race, http, slack, touched, calibSince, probe, session>>

\* ------------------------------------------------------------ waitForFlag

\* The time of the ticker's next tick, the poll having last woken at `elapsed`.
NextTick(rec) == rec.elapsed + TickInterval

\* TickDue of a poll that evaluates its predicate once when it starts, before
\* it waits for the first tick.
TickDueAtStart(rec) == rec.elapsed = 0 \/ NextTick(rec) <= rec.timeout

\* `case <-ticker.C` can be taken: the next tick fires no later than the deadline.
TickDue(rec) == NextTick(rec) <= rec.timeout

\* `case <-ctx.Done()` can be taken: the deadline passes no later than the
\* next tick (when both fire together select takes either).
DeadlineDue(rec) == rec.timeout <= NextTick(rec)

\* The time of the last tick that fires strictly before the deadline.
LastTickBefore(rec) == ((rec.timeout - 1) \div TickInterval) * TickInterval

\* The failing ticks the model takes one by one: the first MaxPollTicks of a
\* poll, and the one that fires together with the deadline.
Followed(rec) == rec.elapsed < MaxPollTicks * TickInterval \/ DeadlineDue(rec)

\* AfterFlag with runCalibration returning as soon as the sprinkler axis is
\* calibrated, the valve axis left out.
AfterFlagNoValve(rec) ==
    IF rec.flag \in {"sprinkler", "valve"}
      THEN [rec EXCEPT !.pc = "tasks", !.taskIdx = 1, !.flag = "none", !.elapsed = 0,
                       !.timeout = 0, !.pubErr = FALSE]
      ELSE [rec EXCEPT !.pc = "tasks", !.taskIdx = rec.taskIdx + 1, !.flag = "none",
                       !.elapsed = 0, !.timeout = 0, !.pubErr = FALSE]

\* AfterFlag with the task loop advancing by two.
AfterFlagSkipTask(rec) ==
    IF rec.flag = "sprinkler" THEN [EndWait(rec) EXCEPT !.pc = "calib_valve"]
    ELSE IF rec.flag = "valve" THEN [EndWait(rec) EXCEPT !.pc = "tasks", !.taskIdx = 1]
    ELSE [EndWait(rec) EXCEPT !.pc = "tasks", !.taskIdx = rec.taskIdx + 2]

\* Where the caller goes on when its poll succeeded.
AfterFlag(rec) ==
    IF rec.flag = "sprinkler" THEN [EndWait(rec) EXCEPT !.pc = "calib_valve"]
    ELSE IF rec.flag = "valve" THEN [EndWait(rec) EXCEPT !.pc = "tasks", !.taskIdx = 1]
    ELSE [EndWait(rec) EXCEPT !.pc = "tasks", !.taskIdx = rec.taskIdx + 1]

\* TimeoutStatus with the task poll recorded as a valve calibration timeout.
TimeoutStatusCalibOnly(flag) ==
    IF flag = "sprinkler" THEN "SPRINKLER_CALIB_TIMEOUT"
    ELSE "VALVE_CALIB_TIMEOUT"

\* TimeoutStatus with a task that timed out recorded as completed.
TimeoutStatusCompleted(flag) ==
    IF flag = "sprinkler" THEN "SPRINKLER_CALIB_TIMEOUT"
    ELSE IF flag = "valve" THEN "VALVE_CALIB_TIMEOUT"
    ELSE "completed"

\* The status the caller records when its poll timed out.
TimeoutStatus(flag) ==
    IF flag = "sprinkler" THEN "SPRINKLER_CALIB_TIMEOUT"
    ELSE IF flag = "valve" THEN "VALVE_CALIB_TIMEOUT"
    ELSE "TASK_TIMEOUT"

\* waitForFlag, `case <-ticker.C`: the snapshot is read and the predicate
\* evaluated; the poll returns nil if it holds and waits on otherwise.
waitTick(r) ==
    /\ run[r].pc = "wait"
    /\ TickDue(run[r])
    /\ LET status == GetDeviceStatus(deviceStatuses, Device(r).ID)
       IN IF checkFunc(run[r].flag, status)
            THEN /\ run' = [run EXCEPT ![r] = AfterFlag(@)]
                 /\ trace' = [trace EXCEPT ![r] =
                        Append(@, Ev("poll_ok", run[r].flag, "", run[r].taskIdx))]
            ELSE /\ Followed(run[r])
                 /\ run' = [run EXCEPT ![r].elapsed = NextTick(run[r])]
                 /\ UNCHANGED trace
    /\ UNCHANGED <<deviceStatuses, db, batch, completionSince, reportedSince, started, config, race, http, slack, touched, calibSince, probe, session>>

\* waitForFlag, `case <-ticker.C` several times in a row with no message
\* dispatched in between: every tick up to the last one before the deadline
\* reads the same snapshot, on which the predicate does not hold.
waitIdle(r) ==
    /\ run[r].pc = "wait"
    /\ run[r].elapsed < LastTickBefore(run[r])
    /\ ~checkFunc(run[r].flag, GetDeviceStatus(deviceStatuses, Device(r).ID))
    /\ run' = [run EXCEPT ![r].elapsed = LastTickBefore(run[r])]
    /\ UNCHANGED <<deviceStatuses, db, trace, batch, completionSince, reportedSince, started, config, race, http, slack, touched, calibSince, probe, session>>

\* waitForFlag, `case <-ctx.Done()`: the poll returns its timeout error and the
\* caller (runCalibration or runDeviceTasks) records the timeout status,
\* notifies and returns the error.
waitDeadline(r) ==
    /\ run[r].pc = "wait"
    /\ DeadlineDue(run[r])
    /\ db' = SaveHistory(db, run[r].hist, TimeoutStatus(run[r].flag),
                         <<"timed out", run[r].flag>>, FALSE)
    /\ trace' = [trace EXCEPT ![r] =
           notifySlackRich(
             Append(Append(@, Ev("poll_timeout", run[r].flag, "", run[r].taskIdx)),
                    Ev("save", TimeoutStatus(run[r].flag), "", 0)),
             "error",
             IF run[r].flag = "task" THEN "Task Timeout" ELSE "Calibration Timeout")]
    /\ run' = [run EXCEPT ![r] = [EndWait(@) EXCEPT !.pc = "job_end",
                                      !.err = TimeoutStatus(run[r].flag)]]
    /\ UNCHANGED <<deviceStatuses, batch, completionSince, reportedSince, started, config, race, http, slack, touched, calibSince, probe, session>>

\* ---------------------------------------------------------- runDeviceTasks

\* What os.ReadFile and json.Unmarshal make of a task file.
LoadOutcomes == IF faults THEN {"ok", "unreadable", "unparseable"} ELSE {"ok"}

\* runDeviceTasks, one iteration up to the publish: the status is reset and the
\* task definition loaded; a file that cannot be read or parsed ends the job.
beginTask(r) ==
    /\ run[r].pc = "tasks"
    /\ run[r].taskIdx <= Len(Device(r).TaskIDs)
    /\ deviceStatuses' = ResetDeviceStatus(deviceStatuses, Device(r).ID)
    /\ completionSince' = [completionSince EXCEPT ![r] = FALSE]
    /\ reportedSince' = [reportedSince EXCEPT ![r] = FALSE]
    /\ \E outcome \in LoadOutcomes, minutes \in 0..MaxTimeoutMinutes :
         LET t0 == Append(trace[r], Ev("reset", "", "", run[r].taskIdx))
             t1 == Append(t0, Ev("load", outcome, Device(r).TaskIDs[run[r].taskIdx],
                                 run[r].taskIdx))
         IN IF outcome = "ok"
              THEN /\ run' = [run EXCEPT ![r].pc = "task_publish",
                                         ![r].timeout = minutes * SecondsPerMinute]
                   /\ trace' = [trace EXCEPT ![r] = t1]
                   /\ UNCHANGED db
              ELSE /\ minutes = 0
                   /\ db' = SaveHistory(db, run[r].hist, "TASK_ERROR",
                                        <<"task file", outcome>>, FALSE)
                   /\ trace' = [trace EXCEPT ![r] =
                          notifySlackRich(Append(t1, Ev("save", "TASK_ERROR", "", 0)),
                                          "error", "Task Error")]
                   /\ run' = [run EXCEPT ![r].pc = "job_end", ![r].err = "TASK_ERROR"]
    /\ touched' = touched \cup {Device(r).ID}
    /\ calibSince' = CalibAfterReset(calibSince, Device(r).ID)
    /\ UNCHANGED <<batch, started, config, race, http, slack, probe, session>>

\* runDeviceTasks: the task payload is published to <id>/cmd/task/set.
publishTask(r) ==
    /\ run[r].pc = "task_publish"
    /\ \E ok \in PublishResults :
         run' = [run EXCEPT ![r].pc = "task_settle", ![r].pubErr = ~ok]
    /\ trace' = [trace EXCEPT ![r] =
           Publish(@, "cmd/task/set", "payload", run[r].taskIdx)]
    /\ UNCHANGED <<deviceStatuses, db, batch, completionSince, reportedSince, started, config, race, http, slack, touched, calibSince, probe, session>>

\* runDeviceTasks: time.Sleep(3 * time.Second), then the poll for
\* taskAllComplete with the task's own timeout.
settleTask(r) ==
    /\ run[r].pc = "task_settle"
    /\ trace' = [trace EXCEPT ![r] = Append(@, Ev("settle", "", "", run[r].taskIdx))]
    /\ run' = [run EXCEPT ![r] = StartWait(@, "task", run[r].timeout)]
    /\ UNCHANGED <<deviceStatuses, db, batch, completionSince, reportedSince, started, config, race, http, slack, touched, calibSince, probe, session>>

\* runDeviceTasks returned nil: processSprinklerDevice records completed and
\* notifies success.
completeSprinkler(r) ==
    /\ run[r].pc = "tasks"
    /\ run[r].taskIdx > Len(Device(r).TaskIDs)
    /\ db' = SaveHistory(db, run[r].hist, "completed", <<"All tasks completed">>, TRUE)
    /\ trace' = [trace EXCEPT ![r] =
           notifySlackRich(Append(@, Ev("save", "completed", "", 0)),
                           "success", "Sprinkler Job Completed")]
    /\ run' = [run EXCEPT ![r].pc = "job_end", ![r].err = ""]
    /\ UNCHANGED <<deviceStatuses, batch, completionSince, reportedSince, started, config, race, http, slack, touched, calibSince, probe, session>>

\* ------------------------------------------------------- inbound messages

\* The MQTT client dispatches one inbound flag message of a configured device.
Deliver(i, parts, payload) ==
    /\ parts \in FlagTopics(Devices[i])
    /\ deviceStatuses' = messageHandler(deviceStatuses, parts, payload)
    /\ completionSince' =
         [r \in RunIds |->
            IF /\ run[r].cur = i
               /\ run[r].pc \in {"tasks", "task_publish", "task_settle", "wait"}
               /\ HasSuffix(parts, <<"status", "task", "all_complete">>)
               /\ ParseBool(payload).val
              THEN TRUE ELSE completionSince[r]]
    /\ reportedSince' =
         [r \in RunIds |->
            IF /\ run[r].cur = i
               /\ run[r].pc \in {"task_settle", "wait"}
               /\ run[r].pc = "wait" => run[r].flag = "task"
               /\ HasSuffix(parts, <<"status", "task", "all_complete">>)
               /\ payload \in TrueSpellings
              THEN TRUE ELSE reportedSince[r]]
    /\ touched' = touched \cup {parts[1]}
    /\ calibSince' = CalibAfterMessage(calibSince, parts, payload)
    /\ UNCHANGED <<db, run, trace, batch, started, config, race, http, slack, probe, session>>

\* ------------------------------------------------- the store on its own

\* The suffixes of messageHandler's switch, as topic segments.
StatusSuffixes ==
    { <<"status", "health_check">>,
      <<"status", "sprinkler", "position">>,
      <<"status", "valve", "position">>,
      <<"status", "sprinkler", "calib_complete">>,
      <<"status", "valve", "calib_complete">>,
      <<"status", "valve", "target">>,
      <<"status", "task", "current_index">>,
      <<"status", "task", "current_count">>,
      <<"status", "task", "all_complete">>,
      <<"status", "task", "array">> }

\* What the case of messageHandler's switch that takes the topic parses the
\* payload as; "none" when the topic is too short or no case takes it.
FieldKind(parts) ==
    IF Len(parts) < 3 THEN "none"
    ELSE IF \/ HasSuffix(parts, <<"status", "health_check">>)
            \/ HasSuffix(parts, <<"status", "sprinkler", "calib_complete">>)
            \/ HasSuffix(parts, <<"status", "valve", "calib_complete">>)
            \/ HasSuffix(parts, <<"status", "valve", "target">>)
            \/ HasSuffix(parts, <<"status", "task", "all_complete">>)
      THEN "bool"
    ELSE IF \/ HasSuffix(parts, <<"status", "sprinkler", "position">>)
            \/ HasSuffix(parts, <<"status", "valve", "position">>)
            \/ HasSuffix(parts, <<"status", "task", "current_index">>)
            \/ HasSuffix(parts, <<"status", "task", "current_count">>)
      THEN "number"
    ELSE IF HasSuffix(parts, <<"status", "task", "array">>) THEN "string"
    ELSE "none"

\* messageHandler logs a warning or a parse error for the message and returns.
Discards(parts, payload) ==
    \/ FieldKind(parts) = "none"
    \/ FieldKind(parts) = "bool" /\ ParseBool(payload).err
    \/ FieldKind(parts) = "number" /\ ParseNum(payload).err

\* Topics of the messages dispatched in SpecStore: every status topic of one
\* device, one of a second device, a topic no case takes and a topic of two
\* segments.
StoreTopics ==
    {<<"spr1">> \o suffix : suffix \in StatusSuffixes}
      \cup { <<"pot1", "status", "health_check">>,
             <<"spr1", "status", "battery">>,
             <<"spr1", "status">> }

\* Payloads of the messages dispatched in SpecStore: "1" parses as a bool and
\* as a number, "on" as neither.
StorePayloads == {"true", "false", "1", "on"}

\* Device IDs the callers of SpecStore reset and get; no message is ever
\* dispatched for "spr9".
ProbeIDs == {"spr1", "pot1", "spr9"}

\* The MQTT client dispatches one inbound message to messageHandler.
Dispatch(parts, payload) ==
    /\ clientOps < MaxClientOps
    /\ clientOps' = clientOps + 1
    /\ deviceStatuses' = messageHandler(deviceStatuses, parts, payload)
    /\ touched' = IF Len(parts) >= 3 THEN touched \cup {parts[1]} ELSE touched
    /\ calibSince' = CalibAfterMessage(calibSince, parts, payload)
    /\ lastOp' = [op |-> "message",
                  id |-> IF Len(parts) >= 3 THEN parts[1] ELSE "",
                  parts |-> parts, payload |-> payload, before |-> deviceStatuses,
                  dropped |-> \/ lastOp.dropped
                              \/ /\ lastOp.op = "message"
                                 /\ Discards(lastOp.parts, lastOp.payload)]
    /\ UNCHANGED <<db, run, trace, batch, completionSince, reportedSince, started, config, race, http, slack, session>>

\* A caller resets the status of a device.
Reset(deviceID) ==
    /\ clientOps < MaxClientOps
    /\ clientOps' = clientOps + 1
    /\ deviceStatuses' = ResetDeviceStatus(deviceStatuses, deviceID)
    /\ touched' = touched \cup {deviceID}
    /\ calibSince' = CalibAfterReset(calibSince, deviceID)
    /\ lastOp' = [op |-> "reset", id |-> deviceID, parts |-> << >>, payload |-> "",
                  before |-> deviceStatuses, dropped |-> lastOp.dropped]
    /\ UNCHANGED <<db, run, trace, batch, completionSince, reportedSince, started, config, race, http, slack, session>>

\* ------------------------------------------- subscriptions and connection

\* The topics SubscribeToDeviceTopics subscribes for a device, by its type.
StatusTopics(device) ==
    IF device.Type = TypeSprinkler
      THEN { <<device.ID, "status", "sprinkler", "position">>,
             <<device.ID, "status", "valve", "position">>,
             <<device.ID, "status", "sprinkler", "calib_complete">>,
             <<device.ID, "status", "valve", "calib_complete">>,
             <<device.ID, "status", "valve", "target">>,
             <<device.ID, "status", "task", "current_index">>,
             <<device.ID, "status", "task", "current_count">>,
             <<device.ID, "status", "task", "all_complete">>,
             <<device.ID, "status", "task", "array">> }
    ELSE IF device.Type = TypePlantPot
      THEN { <<device.ID, "status", "health_check">> }
    ELSE {}

\* storeSubscribed that remembers a device only once its subscribe succeeded.
storeSubscribedOnSuccess(m, device, ok) ==
    IF ok THEN MapStore(m, device.ID, device) ELSE m

\* SubscribeToDeviceTopics' first statement: the device is remembered for
\* reconnections, whatever becomes of the subscribe calls (ok) that follow.
storeSubscribed(m, device, ok) == MapStore(m, device.ID, device)

\* One step of the session, recorded.
SessionOp(name, deviceID) == [NoOp EXCEPT !.op = name, !.id = deviceID]

\* SubscribeToDeviceTopics(device), called by the application: the device is
\* remembered and a subscribe is issued for each of its topics; the subscribes
\* fail when the connection is down, and may fail when it is up.
SubscribeToDeviceTopics(i, ok) ==
    /\ clientOps < MaxSessionOps
    /\ clientOps' = clientOps + 1
    /\ ~connected => ~ok
    /\ subscribedDevices' = storeSubscribed(subscribedDevices, Devices[i], ok)
    /\ passed' = passed \cup {Devices[i].ID}
    /\ issued' = IF connected THEN issued \cup StatusTopics(Devices[i]) ELSE issued
    /\ active' = IF ok THEN active \cup StatusTopics(Devices[i]) ELSE active
    /\ failed' = IF ok \/ StatusTopics(Devices[i]) = {} THEN failed
                 ELSE failed \cup {Devices[i].ID}
    /\ lastOp' = SessionOp("subscribe", Devices[i].ID)
    /\ UNCHANGED <<deviceStatuses, db, run, trace, batch, completionSince, reportedSince, started,
                   config, race, http, slack, touched, calibSince, connected>>

\* connectionLostHandler: the connection is lost; the broker drops the
\* subscriptions of the clean session.
connectionLostHandler ==
    /\ clientOps < MaxSessionOps
    /\ clientOps' = clientOps + 1
    /\ connected
    /\ connected' = FALSE
    /\ issued' = {}
    /\ active' = {}
    /\ lastOp' = SessionOp("lost", "")
    /\ UNCHANGED <<deviceStatuses, db, run, trace, batch, completionSince, reportedSince, started,
                   config, race, http, slack, touched, calibSince, subscribedDevices, passed, failed>>

\* onConnectHandler on a reconnection: SubscribeToDeviceTopics is called for
\* every remembered device; the subscribes of the devices in `failing` fail.
onConnectHandler(failing) ==
    /\ clientOps < MaxSessionOps
    /\ clientOps' = clientOps + 1
    /\ ~connected
    /\ connected' = TRUE
    /\ failing \subseteq DOMAIN subscribedDevices
    /\ subscribedDevices' = subscribedDevices
    /\ issued' = UNION {StatusTopics(subscribedDevices[d]) : d \in DOMAIN subscribedDevices}
    /\ active' = UNION {StatusTopics(subscribedDevices[d]) :
                          d \in DOMAIN subscribedDevices \ failing}
    /\ failed' = failed \cup {d \in failing : StatusTopics(subscribedDevices[d]) # {}}
    /\ lastOp' = SessionOp("reconnect", "")
    /\ UNCHANGED <<deviceStatuses, db, run, trace, batch, completionSince, reportedSince, started,
                   config, race, http, slack, touched, calibSince, passed>>

\* ------------------------------------------------------ notification client

\* The pieces the error texts of the transport are made of: each token in two
\* pieces, two pieces in another case, and one that belongs to no token.
Atoms ==
    {"rate_", "limited", "message_", "limit_exceeded", "too_many_", "requests",
     "RATE_", "Limit_Exceeded", "error: "}

\* strings.ToLower on one piece.
LowerAtom(a) ==
    IF a = "RATE_" THEN "rate_"
    ELSE IF a = "Limit_Exceeded" THEN "limit_exceeded"
    ELSE a

\* strings.ToLower
ToLower(s) == [i \in 1..Len(s) |-> LowerAtom(s[i])]

\* strings.Contains
Contains(s, sub) ==
    \E i \in 0..(Len(s) - Len(sub)) : SubSeq(s, i + 1, i + Len(sub)) = sub

\* The tokens isRateLimitError and handleRateLimit look for.
RateLimited == <<"rate_", "limited">>
MessageLimitExceeded == <<"message_", "limit_exceeded">>
TooManyRequests == <<"too_many_", "requests">>

\* A nil error.
NoError == << >>

\* The texts of up to n pieces.
RECURSIVE TextsUpTo(_)
TextsUpTo(n) ==
    IF n = 0 THEN {<< >>}
    ELSE TextsUpTo(n - 1) \cup
         {Append(s, a) : s \in {x \in TextsUpTo(n - 1) : Len(x) = n - 1}, a \in Atoms}

\* The texts of two pieces that spell a token, in any case.
TokenSpellings ==
    {s \in TextsUpTo(2) :
       ToLower(s) \in {RateLimited, MessageLimitExceeded, TooManyRequests}}

\* err.Error() of the errors PostMessage may return.
ErrTexts ==
    (TextsUpTo(MaxErrAtoms) \ {NoError})
      \cup {s \o t : s \in TokenSpellings, t \in TokenSpellings}

\* isRateLimitError that compares the text as it is.
isRateLimitErrorExact(err) ==
    \/ Contains(err, RateLimited)
    \/ Contains(err, MessageLimitExceeded)
    \/ Contains(err, TooManyRequests)

\* Client.isRateLimitError
isRateLimitError(err) ==
    LET errStr == ToLower(err)
    IN \/ Contains(errStr, RateLimited)
       \/ Contains(errStr, MessageLimitExceeded)
       \/ Contains(errStr, TooManyRequests)

\* handleRateLimit with the one-minute backoff for every rate-limit error.
handleRateLimitShort(c, now, err) ==
    [c EXCEPT !.rateLimitBackoff = ShortBackoffMinutes * SecondsPerMinute,
              !.timers = @ \cup {now + ShortBackoffMinutes * SecondsPerMinute}]

\* Client.handleRateLimit: the backoff is set and a goroutine started that
\* sleeps for its duration and then sets it to 0.
handleRateLimit(c, now, err) ==
    LET errStr == ToLower(err)
        backoffDuration ==
          IF Contains(errStr, MessageLimitExceeded)
            THEN LongBackoffMinutes * SecondsPerMinute
            ELSE ShortBackoffMinutes * SecondsPerMinute
    IN [c EXCEPT !.rateLimitBackoff = backoffDuration,
                 !.timers = @ \cup {now + backoffDuration}]

\* time.Now().Before(time.Now().Add(-c.rateLimitBackoff)), the clock read at n1
\* and then at n2.
Skipping(n1, n2, backoff) == n1 < n2 - backoff

\* Client.IsRateLimited
IsRateLimited(c) == IF IsNil(c) THEN FALSE ELSE c.rateLimitBackoff > 0

\* What a send operation that returns at its nil test does: nothing.
NilSend(c, ret) == [c |-> c, posted |-> FALSE, atPost |-> 0, ret |-> ret]

\* Client.SendRichMessage, err being what PostMessage returns if it is
\* called: the client after the call, whether PostMessage was called, and the
\* backoff at the time it was (or would have been) called.
SendRichMessage(c, now, err) ==
    IF IsNil(c) THEN NilSend(c, "none")
    ELSE IF c.rateLimitBackoff > 0 /\ Skipping(now, now, c.rateLimitBackoff)
      THEN [c |-> c, posted |-> FALSE, atPost |-> c.rateLimitBackoff, ret |-> "none"]
      ELSE LET c0 == [c EXCEPT !.rateLimitBackoff = 0]
           IN [c |-> IF err # NoError /\ isRateLimitError(err)
                       THEN handleRateLimit(c0, now, err)
                       ELSE c0,
               posted |-> TRUE, atPost |-> c0.rateLimitBackoff, ret |-> "none"]

\* Client.SendMessage: the text wrapped as an info message.
SendMessage(c, now, err) ==
    IF IsNil(c) THEN NilSend(c, "none") ELSE SendRichMessage(c, now, err)

\* Client.SendMessageSafe
SendMessageSafe(c, now, err) ==
    IF IsNil(c) THEN NilSend(c, "false")
    ELSE IF IsRateLimited(c)
      THEN [c |-> c, posted |-> FALSE, atPost |-> c.rateLimitBackoff, ret |-> "false"]
    ELSE [SendMessage(c, now, err) EXCEPT !.ret = "true"]

\* SendRichMessageSafe without its nil test.
SendRichMessageSafeNoNilTest(c, now, err) ==
    IF IsRateLimited(c)
      THEN [c |-> c, posted |-> FALSE, atPost |-> c.rateLimitBackoff, ret |-> "false"]
    ELSE [SendRichMessage(c, now, err) EXCEPT !.ret = "true"]

\* Client.SendRichMessageSafe
SendRichMessageSafe(c, now, err) ==
    IF IsNil(c) THEN NilSend(c, "false")
    ELSE IF IsRateLimited(c)
      THEN [c |-> c, posted |-> FALSE, atPost |-> c.rateLimitBackoff, ret |-> "false"]
    ELSE [SendRichMessage(c, now, err) EXCEPT !.ret = "true"]

SendOps == {"SendMessage", "SendRichMessage", "SendMessageSafe", "SendRichMessageSafe"}
SafeOps == {"SendMessageSafe", "SendRichMessageSafe"}

\* The backoff of a client, 0 for the nil client that has none.
Backoff(c) == IF IsNil(c) THEN 0 ELSE c.rateLimitBackoff

\* A caller calls one of the client's send operations; the transport answers
\* PostMessage, if it is called, with err.
SlackSend(op, err) ==
    /\ slackOps < MaxSlackOps
    /\ op \in SendOps
    /\ LET out == CASE op = "SendMessage" -> SendMessage(slackClient, clock, err)
                    [] op = "SendRichMessage" -> SendRichMessage(slackClient, clock, err)
                    [] op = "SendMessageSafe" -> SendMessageSafe(slackClient, clock, err)
                    [] OTHER -> SendRichMessageSafe(slackClient, clock, err)
       IN /\ out.posted \/ err = NoError
          /\ slackClient' = out.c
          /\ lastSend' = [op |-> op, err |-> err,
                          before |-> Backoff(slackClient),
                          posted |-> out.posted, atPost |-> out.atPost,
                          ret |-> out.ret,
                          after |-> Backoff(out.c), at |-> clock]
          /\ window' = IF out.posted /\ out.c.rateLimitBackoff > 0
                         THEN [start |-> clock, dur |-> out.c.rateLimitBackoff]
                         ELSE window
    /\ slackOps' = slackOps + 1
    /\ UNCHANGED <<deviceStatuses, db, run, trace, batch, completionSince, reportedSince, started,
                   config, race, http, touched, calibSince, probe, session, clock>>

\* The goroutine of handleRateLimit wakes up from time.Sleep(backoffDuration),
\* at the end of its sleep or later, and sets the backoff to 0.
backoffReset(e) ==
    /\ ~IsNil(slackClient)
    /\ e \in slackClient.timers
    /\ clock >= e
    /\ slackClient' = [rateLimitBackoff |-> 0, timers |-> slackClient.timers \ {e}]
    /\ UNCHANGED <<deviceStatuses, db, run, trace, batch, completionSince, reportedSince, started,
                   config, race, http, touched, calibSince, probe, session, clock, window, lastSend, slackOps>>

\* A minute passes while a goroutine of handleRateLimit sleeps or is due; the
\* client reads its clock for nothing but its backoff.
ClockTick ==
    /\ clock < MaxSlackMinutes * SecondsPerMinute
    /\ ~IsNil(slackClient)
    /\ slackClient.timers # {}
    /\ clock' = clock + SecondsPerMinute
    /\ UNCHANGED <<deviceStatuses, db, run, trace, batch, completionSince, reportedSince, started,
                   config, race, http, touched, calibSince, probe, session, slackClient, window, lastSend,
                   slackOps>>

\* ------------------------------------- the store, load by load and write by write

\* Messages dispatched and resets made in a behaviour of SpecRace.
MaxRaceOps == 3

\* Topics of the messages dispatched in SpecRace: two status topics of one
\* device, one of a second device, a topic no case takes and a topic of two
\* segments.
RaceTopics ==
    { <<"spr1", "status", "task", "all_complete">>,
      <<"spr1", "status", "valve", "calib_complete">>,
      <<"pot1", "status", "health_check">>,
      <<"spr1", "status", "battery">>,
      <<"spr1", "status">> }

\* Payloads of the messages dispatched in SpecRace; "on" does not parse.
RacePayloads == {"true", "false", "on"}

\* Device IDs the callers of SpecRace reset.
RaceIDs == {"spr1", "pot1"}

\* c.deviceStatuses.Load(deviceID) of GetDeviceStatus on the store of SpecRace:
\* the object the map holds for the ID, or a fresh zero one.
LoadStatus(deviceID) ==
    IF deviceID \in DOMAIN held THEN objects[held[deviceID]] ELSE ZeroStatus(deviceID)

\* messageHandler's switch on the object its pointer refers to: the object
\* after the assignment of the case that takes the topic.
WriteThrough(obj, parts, payload) ==
    messageHandler([d \in {parts[1]} |-> obj], parts, payload)[parts[1]]

\* messageHandler up to `status := value.(*models.DeviceStatus)`: a topic of
\* fewer than three segments returns at once; otherwise LoadOrStore yields the
\* pointer the map holds for the device, a new zero object being stored when it
\* holds none.
HandlerLoad(h, parts, payload) ==
    /\ raceOps < MaxRaceOps
    /\ inflight[h].pc = "idle"
    /\ raceOps' = raceOps + 1
    /\ IF Len(parts) < 3
         THEN /\ lastDone' = [op |-> "message", id |-> "", parts |-> parts,
                              payload |-> payload, addr |-> 0, heldAddr |-> 0,
                              resets |-> lastDone.resets]
              /\ UNCHANGED <<objects, held, inflight>>
         ELSE LET deviceID == parts[1]
                  present == deviceID \in DOMAIN held
                  addr == IF present THEN held[deviceID] ELSE Len(objects) + 1
              IN /\ objects' = IF present THEN objects
                                ELSE Append(objects, ZeroStatus(deviceID))
                 /\ held' = IF present THEN held ELSE MapStore(held, deviceID, addr)
                 /\ inflight' = [inflight EXCEPT ![h] =
                        [pc |-> "loaded", parts |-> parts, payload |-> payload,
                         addr |-> addr]]
                 /\ UNCHANGED lastDone
    /\ UNCHANGED <<deviceStatuses, db, run, trace, batch, completionSince, reportedSince,
                   started, config, touched, calibSince, probe, session, slack, http>>

\* messageHandler from its switch to its return: the field of the topic is
\* assigned through the pointer loaded before, and nothing is stored back.
HandlerWrite(h) ==
    /\ inflight[h].pc = "loaded"
    /\ LET call == inflight[h]
       IN /\ objects' = [objects EXCEPT ![call.addr] =
                            WriteThrough(@, call.parts, call.payload)]
          /\ lastDone' = [op |-> "message", id |-> call.parts[1], parts |-> call.parts,
                          payload |-> call.payload, addr |-> call.addr,
                          heldAddr |-> held[call.parts[1]],
                          resets |-> lastDone.resets]
    /\ inflight' = [inflight EXCEPT ![h] = IdleHandler]
    /\ UNCHANGED <<held, raceOps>>
    /\ UNCHANGED <<deviceStatuses, db, run, trace, batch, completionSince, reportedSince,
                   started, config, touched, calibSince, probe, session, slack, http>>

\* Client.ResetDeviceStatus on the store of SpecRace: Store puts the pointer to
\* a new zero object under the ID.
RaceReset(deviceID) ==
    /\ raceOps < MaxRaceOps
    /\ raceOps' = raceOps + 1
    /\ objects' = Append(objects, ZeroStatus(deviceID))
    /\ held' = MapStore(held, deviceID, Len(objects) + 1)
    /\ lastDone' = [op |-> "reset", id |-> deviceID, parts |-> << >>, payload |-> "",
                    addr |-> Len(objects) + 1, heldAddr |-> Len(objects) + 1,
                    resets |-> lastDone.resets \cup {deviceID}]
    /\ UNCHANGED inflight
    /\ UNCHANGED <<deviceStatuses, db, run, trace, batch, completionSince, reportedSince,
                   started, config, touched, calibSince, probe, session, slack, http>>

\* ------------------------------------------------------ the trigger endpoint

\* Requests the endpoint serves in a behaviour.
MaxRequests == 2

\* http.StatusAccepted, http.StatusBadRequest, http.StatusMethodNotAllowed
StatusAccepted == 202
StatusBadRequest == 400
StatusMethodNotAllowed == 405

\* The methods of the requests.
Methods == {"GET", "POST"}

\* The bodies of the requests: no byte at all, white space only, text that is
\* not JSON, a JSON object without a deviceId, and a JSON object whose deviceId
\* is the ID the body is named by here.
Bodies == {"none", "blank", "malformed", "no_id"} \cup RequestIDs

\* r.ContentLength: 0 for no body, the (positive) length when the request
\* declares it, -1 when it does not (chunked transfer encoding).
ContentLength(body, declared) ==
    IF body = "none" THEN 0 ELSE IF declared THEN 1 ELSE -1

\* json.NewDecoder(r.Body).Decode(&req): the error and the request decoded.
Decode(body) ==
    IF body \in {"none", "blank"} THEN [err |-> "EOF", DeviceID |-> ""]
    ELSE IF body = "malformed" THEN [err |-> "syntax", DeviceID |-> ""]
    ELSE IF body = "no_id" THEN [err |-> "nil", DeviceID |-> ""]
    ELSE [err |-> "nil", DeviceID |-> body]

\* No go statement.
NoCall == [fn |-> "", id |-> ""]

\* TriggerTaskHandler up to its answer: the status code written and the call
\* its go statement makes.
TriggerResponse(method, body, declared) ==
    IF method # "POST" THEN [code |-> StatusMethodNotAllowed, call |-> NoCall]
    ELSE LET req == IF ContentLength(body, declared) > 0
                      THEN Decode(body)
                      ELSE [err |-> "nil", DeviceID |-> ""]
         IN IF req.err \notin {"nil", "EOF"}
              THEN [code |-> StatusBadRequest, call |-> NoCall]
            ELSE IF req.DeviceID # ""
              THEN [code |-> StatusAccepted,
                    call |-> [fn |-> "RunJobForDevice", id |-> req.DeviceID]]
            ELSE [code |-> StatusAccepted,
                  call |-> [fn |-> "RunAllJobsOnce", id |-> ""]]

\* Invocations of the scheduler's entry points that have started.
StartedRuns == started[1] + started[2]

\* TriggerTaskHandler serves one request: it answers, having started the
\* goroutine of the run if it accepts the request.
TriggerTaskHandler(method, body, declared) ==
    /\ requests < MaxRequests
    /\ requests' = requests + 1
    /\ LET out == TriggerResponse(method, body, declared)
           calls == IF out.call = NoCall THEN goCalls ELSE Append(goCalls, out.call)
       IN /\ goCalls' = calls
          /\ lastRequest' = [method |-> method, body |-> body, declared |-> declared,
                             code |-> out.code,
                             spawned |-> Len(calls) - Len(goCalls),
                             waiting |-> Len(calls) - StartedRuns]
    /\ UNCHANGED <<deviceStatuses, db, run, trace, batch, completionSince, reportedSince,
                   started, config, touched, calibSince, probe, session, slack, race>>

\* A goroutine started by TriggerTaskHandler begins to run: the call of its go
\* statement enters the scheduler. The goroutines begin in the order of their
\* go statements.
GoStart(r) ==
    /\ StartedRuns < Len(goCalls)
    /\ LET call == goCalls[StartedRuns + 1]
       IN IF call.fn = "RunJobForDevice"
            THEN RunJobForDevice(r, call.id)
            ELSE RunAllJobsOnce(r)

\* ---------------------------------------------------------- specifications

\* The goroutines of handleRateLimit that have not woken up yet.
Timers(c) == IF IsNil(c) THEN {} ELSE c.timers

\* The steps of a device job.
JobStep(r) ==
    \/ runDeviceJob(r)
    \/ runDeviceJobReturn(r)
    \/ processPlantPotDevice(r)
    \/ processSprinklerDevice(r)
    \/ calibrateSprinkler(r)
    \/ calibrateValve(r)
    \/ waitTick(r)
    \/ waitIdle(r)
    \/ waitDeadline(r)
    \/ beginTask(r)
    \/ publishTask(r)
    \/ settleTask(r)
    \/ completeSprinkler(r)

RunStep(r) ==
    \/ RunAllJobsOnce(r)
    \/ \E id \in RequestIDs : RunJobForDevice(r, id)
    \/ \E i \in 1..Len(Devices) : ScheduledJob(r, i)
    \/ RunAllLoop(r)
    \/ RunExit(r)
    \/ JobStep(r)

Message ==
    \E i \in 1..Len(Devices) :
      \E parts \in FlagTopics(Devices[i]), payload \in FlagPayloads :
        Deliver(i, parts, payload)

\* One invocation at a time: the invocations do not overlap.
Next == RunStep(1) \/ Message

Spec == Init /\ [][Next]_vars

\* Invocations may overlap: two goroutines run the entry points, with a
\* transport that acknowledges every publish, task files that load and a device
\* that reports a flag when it has reached it.
InitOverlap ==
    /\ deviceStatuses = [d \in {} |-> ZeroStatus(d)]
    /\ db = << >>
    /\ run = [r \in RunIds |-> IdleRun]
    /\ trace = [r \in RunIds |-> << >>]
    /\ batch = [r \in RunIds |-> << >>]
    /\ completionSince = [r \in RunIds |-> FALSE]
    /\ reportedSince = [r \in RunIds |-> FALSE]
    /\ started = [r \in RunIds |-> 0]
    /\ faults = FALSE
    /\ noTasks = FALSE
    /\ notifyResult = "sent"
    /\ ClientInit
    /\ SlackInit
    /\ RaceInit
    /\ HttpInit

\* Start-up with any configuration and any notification client: the
\* sprinkler has tasks or none, and notifications are sent, fail, are
\* suppressed or have no client to go through.
InitConfigured ==
    /\ deviceStatuses = [d \in {} |-> ZeroStatus(d)]
    /\ db = << >>
    /\ run = [r \in RunIds |-> IdleRun]
    /\ trace = [r \in RunIds |-> << >>]
    /\ batch = [r \in RunIds |-> << >>]
    /\ completionSince = [r \in RunIds |-> FALSE]
    /\ reportedSince = [r \in RunIds |-> FALSE]
    /\ started = [r \in RunIds |-> 0]
    /\ faults = TRUE
    /\ noTasks \in BOOLEAN
    /\ notifyResult \in NotifyResults
    /\ ClientInit
    /\ SlackInit
    /\ RaceInit
    /\ HttpInit

\* The sprinklers of the configuration.
Sprinklers == {i \in 1..Len(Devices) : Devices[i].Type = TypeSprinkler}

\* The steps of a sprinkler's device job.
SprinklerJobStep(r) ==
    \/ runDeviceJob(r)
    \/ runDeviceJobReturn(r)
    \/ processSprinklerDevice(r)
    \/ calibrateSprinkler(r)
    \/ calibrateValve(r)
    \/ waitTick(r)
    \/ waitIdle(r)
    \/ waitDeadline(r)
    \/ beginTask(r)
    \/ publishTask(r)
    \/ settleTask(r)
    \/ completeSprinkler(r)

\* A run-single request for a sprinkler is served by goroutine 1 while the
\* daily job of the same sprinkler fires in goroutine 2.
NextOverlap ==
    \/ \E i \in Sprinklers : RunJobForDevice(1, Devices[i].ID)
    \/ \E i \in Sprinklers : ScheduledJob(2, i)
    \/ \E r \in RunIds : SprinklerJobStep(r)
    \/ \E i \in Sprinklers :
         \E parts \in FlagTopics(Devices[i]) : Deliver(i, parts, "true")

SpecOverlap == InitOverlap /\ [][NextOverlap]_vars

\* The store on its own: messages are dispatched and statuses reset in any order.
NextStore ==
    \/ \E parts \in StoreTopics, payload \in StorePayloads : Dispatch(parts, payload)
    \/ \E deviceID \in ProbeIDs : Reset(deviceID)

SpecStore == Init /\ [][NextStore]_vars

\* The session on its own: the application subscribes devices while the
\* connection comes and goes.
NextSession ==
    \/ \E i \in 1..Len(Devices), ok \in BOOLEAN : SubscribeToDeviceTopics(i, ok)
    \/ connectionLostHandler
    \/ \E failing \in SUBSET DeviceIDs : onConnectHandler(failing)

SpecSession == Init /\ [][NextSession]_vars

\* The notification client on its own: callers send, the transport answers,
\* time passes and the goroutines of handleRateLimit wake up.
NextSlack ==
    \/ \E op \in SendOps, err \in {NoError} \cup ErrTexts : SlackSend(op, err)
    \/ \E e \in Timers(slackClient) : backoffReset(e)
    \/ ClockTick

SpecSlack == Init /\ [][NextSlack]_vars

\* The notification client of any configuration, with or without credentials.
InitNotifier ==
    /\ deviceStatuses = [d \in {} |-> ZeroStatus(d)]
    /\ db = << >>
    /\ run = [r \in RunIds |-> IdleRun]
    /\ trace = [r \in RunIds |-> << >>]
    /\ batch = [r \in RunIds |-> << >>]
    /\ completionSince = [r \in RunIds |-> FALSE]
    /\ reportedSince = [r \in RunIds |-> FALSE]
    /\ started = [r \in RunIds |-> 0]
    /\ faults = TRUE
    /\ noTasks = FALSE
    /\ ClientInit
    /\ SlackInitAny
    /\ notifyResult = IF IsNil(slackClient) THEN "no_client" ELSE "sent"
    /\ RaceInit
    /\ HttpInit

SpecNotifier == InitNotifier /\ [][NextSlack]_vars

\* The store at the grain of its calls on the sync.Map: the callback
\* goroutines of the MQTT client run messageHandler while callers reset statuses.
NextRace ==
    \/ \E h \in HandlerIds, parts \in RaceTopics, payload \in RacePayloads :
         HandlerLoad(h, parts, payload)
    \/ \E h \in HandlerIds : HandlerWrite(h)
    \/ \E deviceID \in RaceIDs : RaceReset(deviceID)

SpecRace == Init /\ [][NextRace]_vars

\* The trigger endpoint: requests are served and the goroutines they start
\* enter the scheduler.
NextTrigger ==
    \/ \E method \in Methods, body \in Bodies, declared \in BOOLEAN :
         TriggerTaskHandler(method, body, declared)
    \/ \E r \in RunIds : GoStart(r)

SpecTrigger == Init /\ [][NextTrigger]_vars

\* The scheduler under any configuration and notification client.
SpecConfigured == InitConfigured /\ [][Next]_vars

\* A goroutine inside waitForFlag keeps running: its select takes a tick or the
\* deadline once one of them is ready.
SpecLive == Spec /\ WF_vars(waitTick(1) \/ waitIdle(1) \/ waitDeadline(1))


\* ------------------------------------------------------------- properties

\* The job whose calls trace[r] holds is the job of a sprinkler.
SprinklerTrace(r) == Len(trace[r]) > 0 /\ trace[r][1].what = TypeSprinkler

\* The device of the job whose calls trace[r] holds.
TraceDevice(r) == Devices[FindDevice(trace[r][1].arg)]

\* The positions of t that hold an event e.
At(t, e) == {i \in 1..Len(t) : t[i].ev = e}

IsPublish(x, path) == x.ev = "publish" /\ x.arg = path
IsPollOk(x, flag) == x.ev = "poll_ok" /\ x.arg = flag
IsPollTimeout(x, flag) == x.ev = "poll_timeout" /\ x.arg = flag
IsSkip(x, axis) == x.ev = "skip" /\ x.arg = axis
IsNotify(x, severity) == x.ev = "notify" /\ x.arg = severity

\* The history row of the job in progress in goroutine r.
HistoryOf(r) == db[run[r].hist]

\* Every call of the sprinkler job t of a device with the task IDs `ids` comes
\* right after the call it is gated on.
GatedOrder(t, ids) ==
    \A i \in 1..Len(t) :
      LET e == t[i]
          prev == t[i - 1]
      IN
      /\ IsPublish(e, "cmd/sprinkler/home") => i > 1 /\ prev.ev = "create"
      /\ IsPollOk(e, "sprinkler") => i > 1 /\ IsPublish(prev, "cmd/sprinkler/home")
      /\ IsPublish(e, "cmd/valve/home") =>
           /\ i > 1
           /\ IsPollOk(prev, "sprinkler") \/ IsSkip(prev, "sprinkler")
           /\ \A j \in 1..(i - 1) :
                IsPublish(t[j], "cmd/sprinkler/home") =>
                  \E m \in (j + 1)..(i - 1) : IsPollOk(t[m], "sprinkler")
      /\ IsPollOk(e, "valve") => i > 1 /\ IsPublish(prev, "cmd/valve/home")
      /\ e.ev = "reset" =>
           /\ i > 1
           /\ e.k \in 1..Len(ids)
           /\ IF e.k = 1
                THEN IsPollOk(prev, "valve") \/ IsSkip(prev, "valve")
                ELSE IsPollOk(prev, "task") /\ prev.k = e.k - 1
      /\ e.ev = "load" => i > 1 /\ prev.ev = "reset" /\ prev.k = e.k /\ e.what = ids[e.k]
      /\ IsPublish(e, "cmd/task/set") =>
           i > 1 /\ prev.ev = "load" /\ prev.arg = "ok" /\ prev.k = e.k
      /\ e.ev = "settle" => i > 1 /\ IsPublish(prev, "cmd/task/set") /\ prev.k = e.k
      /\ IsPollOk(e, "task") => i > 1 /\ prev.ev = "settle" /\ prev.k = e.k
      /\ (e.ev = "save" /\ e.arg = "completed") =>
           /\ i > 1
           /\ IF Len(ids) = 0
                THEN IsPollOk(prev, "valve") \/ IsSkip(prev, "valve")
                ELSE IsPollOk(prev, "task") /\ prev.k = Len(ids)

\* C1: a sprinkler job issues its commands in a fixed order, each gated on the
\* one before: the sprinkler home publish, after the sprinkler poll succeeded
\* (or the axis was skipped) the valve home publish, after the valve poll
\* succeeded (or was skipped) for each task in list order reset, load, publish
\* to cmd/task/set, settle delay, poll; task k+1 is begun only after task k's
\* poll succeeded, and the history row is `started` until the row is saved as
\* completed right after the last task's poll succeeded.
C1_GatedCommandOrder ==
    \A r \in RunIds :
      SprinklerTrace(r) =>
        /\ GatedOrder(trace[r], TraceDevice(r).TaskIDs)
        /\ run[r].hist # 0 =>
             /\ HistoryOf(r).Status = "completed" <=>
                  \E i \in At(trace[r], "save") : trace[r][i].arg = "completed"
             /\ At(trace[r], "save") = {} => HistoryOf(r).Status = "started"

\* A sprinkler job that published both home commands and both tasks and was
\* recorded as completed.
C1_Witness ==
    \E r \in RunIds :
      /\ SprinklerTrace(r)
      /\ \E i \in At(trace[r], "publish") : IsPublish(trace[r][i], "cmd/sprinkler/home")
      /\ \E i \in At(trace[r], "publish") : IsPublish(trace[r][i], "cmd/valve/home")
      /\ \E i \in At(trace[r], "publish") :
           IsPublish(trace[r][i], "cmd/task/set") /\ trace[r][i].k = 2
      /\ run[r].hist # 0 /\ HistoryOf(r).Status = "completed"


\* The events of the task loop of a sprinkler job.
TaskEvents == {"reset", "load", "settle"}

\* The call x belongs to the task loop and is about the task at index k or later.
TaskCallFrom(x, k) ==
    /\ x.ev \in TaskEvents \/ IsPublish(x, "cmd/task/set") \/ IsPollOk(x, "task")
    /\ x.k >= k

\* The device jobs a batch has finished, in the order it finished them.
Finished(b) == SelectSeq(b, LAMBDA x : x.ev = "job_end")

\* C2: when a task's poll reaches the task's own timeout without observing
\* taskAllComplete, the history row gets the status TASK_TIMEOUT, an
\* error-severity notification is attempted, no later task of the device is
\* reset, loaded or published, and a batch goes on to the next configured
\* device.
C2_TaskTimeout ==
    \A r \in RunIds :
      /\ SprinklerTrace(r) =>
           \A i \in At(trace[r], "poll_timeout") :
             trace[r][i].arg = "task" =>
               /\ HistoryOf(r).Status = "TASK_TIMEOUT"
               /\ \E j \in (i + 1)..Len(trace[r]) : IsNotify(trace[r][j], "error")
               /\ \A j \in 1..Len(trace[r]) : ~TaskCallFrom(trace[r][j], trace[r][i].k + 1)
               /\ \A j \in (i + 1)..Len(trace[r]) : ~TaskCallFrom(trace[r][j], 1)
               /\ run[r].pc \in {"job_end", "all_loop", "job", "done"}
      /\ run[r].kind = "all" =>
           \A j \in 1..Len(Finished(batch[r])) :
             LET d == FindDevice(Finished(batch[r])[j].arg)
             IN (Finished(batch[r])[j].what = "TASK_TIMEOUT" /\ d < Len(Devices)) =>
                  /\ run[r].devIdx > d
                  /\ run[r].pc = "done" =>
                       /\ Len(Finished(batch[r])) > j
                       /\ Finished(batch[r])[j + 1].arg = Devices[d + 1].ID

\* A batch has ended whose sprinkler timed out in a task and whose device after
\* the sprinkler was processed.
C2_Witness ==
    \E r \in RunIds :
      /\ run[r].kind = "all" /\ run[r].pc = "done"
      /\ \E j \in 1..(Len(Finished(batch[r])) - 1) :
           /\ Finished(batch[r])[j].what = "TASK_TIMEOUT"
           /\ Finished(batch[r])[j].arg = "spr1"
           /\ Finished(batch[r])[j + 1].arg = "odd2"
      /\ \E h \in 1..Len(db) : db[h].Status = "TASK_TIMEOUT"

\* The number of calls of the job t that satisfy Is.
Count(t, Is(_)) == Cardinality({i \in 1..Len(t) : Is(t[i])})

IsReset(x) == x.ev = "reset"
IsTaskSet(x) == IsPublish(x, "cmd/task/set")

\* C3: a sprinkler job of a device with N task IDs whose tasks all complete has
\* made exactly N status resets and exactly N publishes to cmd/task/set; when
\* the task at (0-based) index k is the first to time out, exactly k+1 resets
\* and k+1 publishes were made and no task of index k+1 or later is begun.
C3_ResetAndPublishCounts ==
    \A r \in RunIds :
      SprinklerTrace(r) =>
        LET t == trace[r]
            N == Len(TraceDevice(r).TaskIDs)
        IN
        /\ (\E i \in At(t, "save") : t[i].arg = "completed") =>
             Count(t, IsReset) = N /\ Count(t, IsTaskSet) = N
        /\ \A i \in At(t, "poll_timeout") :
             t[i].arg = "task" =>
               /\ Count(t, IsReset) = t[i].k
               /\ Count(t, IsTaskSet) = t[i].k
               /\ \A j \in 1..Len(t) : ~TaskCallFrom(t[j], t[i].k + 1)

\* The second of two tasks timed out after the first one completed: two resets
\* and two publishes were made.
C3_Witness ==
    \E r \in RunIds :
      /\ SprinklerTrace(r)
      /\ \E i \in At(trace[r], "poll_timeout") :
           trace[r][i].arg = "task" /\ trace[r][i].k = 2
      /\ Count(trace[r], IsReset) = 2
      /\ Count(trace[r], IsTaskSet) = 2

\* The stored flag of the axis, as runCalibration reads it for device d.
AxisFlag(axis, d) ==
    /\ d \in DOMAIN deviceStatuses
    /\ IF axis = "sprinkler" THEN deviceStatuses[d].SprinklerCalibComplete
       ELSE deviceStatuses[d].ValveCalibComplete

\* The calibration step of one axis, taken by goroutine r.
AxisStep(r, axis, at, home, next) ==
    (run[r].pc = at /\ run'[r] # run[r]) =>
      IF AxisFlag(axis, Devices[run[r].cur].ID)
        THEN /\ trace'[r] = Append(trace[r], Ev("skip", axis, "", 0))
             /\ run'[r].pc = next
        ELSE /\ trace'[r] = Append(trace[r], Ev("publish", home, "1", 0))
             /\ run'[r].pc = "wait"
             /\ run'[r].flag = axis
             /\ run'[r].elapsed = 0
             /\ run'[r].timeout = CalibTimeout

IsHomeSprinkler(x) == IsPublish(x, "cmd/sprinkler/home")
IsHomeValve(x) == IsPublish(x, "cmd/valve/home")
IsPollEndSprinkler(x) == IsPollOk(x, "sprinkler") \/ IsPollTimeout(x, "sprinkler")
IsPollEndValve(x) == IsPollOk(x, "valve") \/ IsPollTimeout(x, "valve")
IsSkipSprinkler(x) == IsSkip(x, "sprinkler")
IsSkipValve(x) == IsSkip(x, "valve")

\* A job's calls for its two axes: at most one home command and one poll per
\* axis, and none for an axis that was skipped.
AxisCalls(t) ==
    /\ Count(t, IsHomeSprinkler) + Count(t, IsSkipSprinkler) <= 1
    /\ Count(t, IsHomeValve) + Count(t, IsSkipValve) <= 1
    /\ Count(t, IsPollEndSprinkler) <= Count(t, IsHomeSprinkler)
    /\ Count(t, IsPollEndValve) <= Count(t, IsHomeValve)

\* C4: in runCalibration, for each axis on its own: when the snapshot read just
\* before the axis' step reports the axis calibrated, no home command is
\* published for it and waitForFlag is not entered for it; otherwise exactly one
\* home command is published and one poll with the calibration timeout is begun.
C4_CalibrationSkip ==
    /\ [][\A r \in RunIds :
            /\ AxisStep(r, "sprinkler", "calib_sprinkler", "cmd/sprinkler/home",
                        "calib_valve")
            /\ AxisStep(r, "valve", "calib_valve", "cmd/valve/home", "tasks")]_vars
    /\ [](\A r \in RunIds : SprinklerTrace(r) => AxisCalls(trace[r]))

\* A job skipped the sprinkler axis, which was reported calibrated, and
\* published the home command of the valve axis, which was not.
C4_Witness ==
    \E r \in RunIds :
      /\ SprinklerTrace(r)
      /\ Count(trace[r], IsSkipSprinkler) = 1
      /\ Count(trace[r], IsHomeSprinkler) = 0
      /\ Count(trace[r], IsHomeValve) = 1
      /\ Count(trace[r], IsPollEndValve) = 1

\* C5: when a calibration poll reaches its deadline the history row holds the
\* calibration-timeout status of the axis, an error notification is attempted
\* and the job is aborted: no valve home command and no task command after a
\* sprinkler-axis timeout, no task command after a valve-axis timeout.
C5_CalibTimeoutRecorded ==
    \A r \in RunIds :
      SprinklerTrace(r) =>
        \A i \in At(trace[r], "poll_timeout") :
          trace[r][i].arg \in {"sprinkler", "valve"} =>
            /\ HistoryOf(r).Status = TimeoutStatus(trace[r][i].arg)
            /\ \E j \in (i + 1)..Len(trace[r]) : IsNotify(trace[r][j], "error")
            /\ \A j \in 1..Len(trace[r]) : ~TaskCallFrom(trace[r][j], 1)
            /\ trace[r][i].arg = "sprinkler" => Count(trace[r], IsHomeValve) = 0

\* C6: RunAllJobsOnce runs the device job of every configured device exactly
\* once, in configuration order, whatever the outcome of the jobs before: the
\* jobs a batch has finished are those of the first devices of the
\* configuration, in order, the job in progress is the next one, and a batch
\* that has ended has finished all of them.
C6_BatchRunsEveryDevice ==
    \A r \in RunIds :
      run[r].kind = "all" =>
        LET done == Finished(batch[r])
        IN
        /\ Len(done) <= Len(Devices)
        /\ \A j \in 1..Len(done) : done[j].arg = Devices[j].ID
        /\ run[r].devIdx = Len(done) + 1
        /\ run[r].pc \notin {"all_loop", "done"} => run[r].cur = Len(done) + 1
        /\ run[r].pc = "done" => Len(done) = Len(Devices)

\* A batch has ended in which the plant pot failed its health check and the
\* sprinkler ended with an error.
C6_Witness ==
    \E r \in RunIds :
      /\ run[r].kind = "all" /\ run[r].pc = "done"
      /\ Len(Finished(batch[r])) = Len(Devices)
      /\ Finished(batch[r])[1].what = "health check failed"
      /\ Finished(batch[r])[3].what # ""

\* Goroutine r is inside runDeviceJob.
InDeviceJob(r) == run[r].pc \notin {"idle", "all_loop", "done"}

\* C7: at no time are two device jobs for the same device ID in progress.
C7_OneJobPerDevice ==
    \A r1, r2 \in RunIds :
      (r1 # r2 /\ InDeviceJob(r1) /\ InDeviceJob(r2)) => run[r1].cur # run[r2].cur

\* C8: a goroutine whose last publish of a calibration or task command failed
\* does not go on to the settle delay or to the poll for the flag.
C8_NoPollAfterFailedPublish ==
    \A r \in RunIds : run[r].pubErr => run[r].pc \notin {"task_settle", "wait"}

\* The stored flag the poll of goroutine r waits for, as its tick reads it.
PolledFlag(r) ==
    LET d == Devices[run[r].cur].ID
    IN /\ d \in DOMAIN deviceStatuses
       /\ IF run[r].flag = "sprinkler" THEN deviceStatuses[d].SprinklerCalibComplete
          ELSE IF run[r].flag = "valve" THEN deviceStatuses[d].ValveCalibComplete
          ELSE deviceStatuses[d].TaskAllComplete

\* One step of goroutine r while it is inside waitForFlag.
PollStep(r) ==
    run[r].pc = "wait" =>
      \/ /\ run'[r].pc = "wait"
         /\ run'[r].flag = run[r].flag
         /\ run'[r].timeout = run[r].timeout
         /\ run'[r].cur = run[r].cur
         /\ run'[r].elapsed >= run[r].elapsed
         /\ run'[r].elapsed <= run[r].timeout
         /\ run'[r].elapsed > run[r].elapsed => ~PolledFlag(r)
         /\ trace'[r] = trace[r]
      \/ /\ run'[r].pc \in {"calib_valve", "tasks"}
         /\ PolledFlag(r)
         /\ run[r].elapsed + TickInterval <= run[r].timeout
         /\ run'[r].err = ""
         /\ trace'[r] = Append(trace[r], Ev("poll_ok", run[r].flag, "", run[r].taskIdx))
      \/ /\ run'[r].pc = "job_end"
         /\ run[r].timeout <= run[r].elapsed + TickInterval
         /\ run'[r].err # ""
         /\ Len(trace'[r]) > Len(trace[r])
         /\ trace'[r][Len(trace[r]) + 1] =
              Ev("poll_timeout", run[r].flag, "", run[r].taskIdx)

\* C9: waitForFlag returns success only at a tick, no later than the deadline,
\* at which the predicate holds on the snapshot read at that tick; it returns
\* the timeout error only once the deadline has come; nothing else ends or
\* changes a poll; and every poll ends.
C9_PollPrimitive ==
    /\ [][\A r \in RunIds : PollStep(r)]_vars
    /\ \A r \in RunIds : (run[r].pc = "wait") ~> (run[r].pc # "wait")

\* A job has seen both ends of a poll: the poll of its first task succeeded at
\* a tick and the poll of its second task was ended by its deadline.
C9_Witness ==
    \E r \in RunIds :
      /\ run[r].pc = "job_end"
      /\ SprinklerTrace(r)
      /\ \E i \in At(trace[r], "poll_ok") : trace[r][i].arg = "task"
      /\ \E i \in At(trace[r], "poll_timeout") :
           trace[r][i].arg = "task" /\ trace[r][i].k = 2
      /\ run[r].err = "TASK_TIMEOUT"

\* C10: a task's poll succeeds only when a taskAllComplete=true message was
\* dispatched for the device after the reset that began the task: a flag stored
\* before that reset does not satisfy the poll.
C10_NoStaleCompletion ==
    \A r \in RunIds :
      (Len(trace[r]) > 0 /\ IsPollOk(trace[r][Len(trace[r])], "task")) =>
        completionSince[r]

\* The poll of the second task has succeeded, the first task having left its
\* completion flag behind before the second task's reset.
C10_Witness ==
    \E r \in RunIds :
      /\ Len(trace[r]) > 0
      /\ IsPollOk(trace[r][Len(trace[r])], "task")
      /\ trace[r][Len(trace[r])].k = 2
      /\ completionSince[r]


\* ------------------------------------------------ properties of the store

\* The snapshot s of device deviceID is zero-valued: no flag set, every number
\* zero, no task array.
IsZeroSnapshot(s, deviceID) ==
    /\ DOMAIN s = {"DeviceID", "HealthCheck", "SprinklerPosition", "ValvePosition",
                   "SprinklerCalibComplete", "ValveCalibComplete", "ValveIsAtTarget",
                   "TaskCurrentIndex", "TaskCurrentCount", "TaskAllComplete",
                   "TaskArray"}
    /\ s.DeviceID = deviceID
    /\ ~s.HealthCheck /\ ~s.SprinklerCalibComplete /\ ~s.ValveCalibComplete
    /\ ~s.ValveIsAtTarget /\ ~s.TaskAllComplete
    /\ s.SprinklerPosition = 0 /\ s.ValvePosition = 0
    /\ s.TaskCurrentIndex = 0 /\ s.TaskCurrentCount = 0
    /\ s.TaskArray = ""

\* C11: GetDeviceStatus never returns nil, and for a device ID for which no
\* message was dispatched and no reset was made it returns a zero-valued
\* snapshot.
C11_GetNeverNil ==
    \A id \in ProbeIDs :
      LET snap == GetDeviceStatus(deviceStatuses, id)
      IN /\ snap # NilStatus
         /\ id \notin touched => IsZeroSnapshot(snap, id)

\* Messages were dispatched for two devices and set flags of theirs; nothing
\* was dispatched or reset for the third.
C11_Witness ==
    /\ touched = {"spr1", "pot1"}
    /\ deviceStatuses["spr1"].TaskAllComplete
    /\ deviceStatuses["pot1"].HealthCheck
    /\ "spr9" \notin DOMAIN deviceStatuses

\* C12: right after ResetDeviceStatus(deviceID), whatever the snapshot before,
\* GetDeviceStatus(deviceID) is zero-valued and the snapshot of every other
\* device ID is what it was.
C12_ResetZeroes ==
    lastOp.op = "reset" =>
      /\ IsZeroSnapshot(GetDeviceStatus(deviceStatuses, lastOp.id), lastOp.id)
      /\ \A other \in (ProbeIDs \cup DOMAIN lastOp.before) \ {lastOp.id} :
           /\ GetDeviceStatus(deviceStatuses, other) = GetDeviceStatus(lastOp.before, other)
           /\ other \in DOMAIN deviceStatuses <=> other \in DOMAIN lastOp.before

\* A device whose snapshot had a flag set was reset while a second device had a
\* flag set too.
C12_Witness ==
    /\ lastOp.op = "reset"
    /\ lastOp.id = "spr1"
    /\ "spr1" \in DOMAIN lastOp.before
    /\ lastOp.before["spr1"].SprinklerCalibComplete
    /\ "pot1" \in DOMAIN deviceStatuses
    /\ deviceStatuses["pot1"].HealthCheck

\* C13: a status message whose payload does not parse for the type of its field
\* leaves the device's snapshot, the field of the topic included, as it was.
C13_UnparsedDiscarded ==
    ( /\ lastOp.op = "message"
      /\ \/ FieldKind(lastOp.parts) = "bool" /\ ParseBool(lastOp.payload).err
         \/ FieldKind(lastOp.parts) = "number" /\ ParseNum(lastOp.payload).err )
    => GetDeviceStatus(deviceStatuses, lastOp.id) = GetDeviceStatus(lastOp.before, lastOp.id)

\* The topic ends with one of the suffixes of the dispatch table.
Recognized(parts) == \E suffix \in StatusSuffixes : HasSuffix(parts, suffix)

\* The snapshot field the dispatch table maps the topic to.
FieldOf(parts) ==
    IF HasSuffix(parts, <<"status", "health_check">>) THEN "HealthCheck"
    ELSE IF HasSuffix(parts, <<"status", "sprinkler", "position">>) THEN "SprinklerPosition"
    ELSE IF HasSuffix(parts, <<"status", "valve", "position">>) THEN "ValvePosition"
    ELSE IF HasSuffix(parts, <<"status", "sprinkler", "calib_complete">>)
      THEN "SprinklerCalibComplete"
    ELSE IF HasSuffix(parts, <<"status", "valve", "calib_complete">>)
      THEN "ValveCalibComplete"
    ELSE IF HasSuffix(parts, <<"status", "valve", "target">>) THEN "ValveIsAtTarget"
    ELSE IF HasSuffix(parts, <<"status", "task", "current_index">>) THEN "TaskCurrentIndex"
    ELSE IF HasSuffix(parts, <<"status", "task", "current_count">>) THEN "TaskCurrentCount"
    ELSE IF HasSuffix(parts, <<"status", "task", "all_complete">>) THEN "TaskAllComplete"
    ELSE "TaskArray"

\* The payload parses for the field of the topic, and to what.
ParsedOk(parts, payload) ==
    IF FieldOf(parts) = "TaskArray" THEN TRUE
    ELSE IF FieldOf(parts) \in {"SprinklerPosition", "ValvePosition", "TaskCurrentIndex",
                                "TaskCurrentCount"}
      THEN payload \in {"0", "1"}
    ELSE payload \in {"true", "false", "1", "0"}

ParsedValue(parts, payload) ==
    IF FieldOf(parts) = "TaskArray" THEN payload
    ELSE IF FieldOf(parts) \in {"SprinklerPosition", "ValvePosition", "TaskCurrentIndex",
                                "TaskCurrentCount"}
      THEN (IF payload = "1" THEN 1 ELSE 0)
    ELSE payload \in {"true", "1"}

\* C14: a message on a topic of fewer than three segments, or with a suffix that
\* is not in the dispatch table, changes no field value of any device's
\* snapshot, and messages dispatched after a dropped one still take effect.
C14_UnknownTopicNoEffect ==
    lastOp.op = "message" =>
      /\ (Len(lastOp.parts) < 3 \/ ~Recognized(lastOp.parts)) =>
           \A id \in ProbeIDs \cup DOMAIN deviceStatuses \cup {lastOp.parts[1]} :
             GetDeviceStatus(deviceStatuses, id) = GetDeviceStatus(lastOp.before, id)
      /\ ( /\ lastOp.dropped
           /\ Len(lastOp.parts) >= 3
           /\ Recognized(lastOp.parts)
           /\ ParsedOk(lastOp.parts, lastOp.payload) ) =>
           GetDeviceStatus(deviceStatuses, lastOp.id)[FieldOf(lastOp.parts)] =
             ParsedValue(lastOp.parts, lastOp.payload)

\* A message with an unknown suffix was dispatched for a device whose snapshot
\* has a flag set, after a message on a two-segment topic was dropped.
C14_Witness ==
    /\ lastOp.op = "message"
    /\ lastOp.parts = <<"spr1", "status", "battery">>
    /\ lastOp.dropped
    /\ "spr1" \in DOMAIN lastOp.before
    /\ lastOp.before["spr1"].TaskAllComplete


\* The status topics of a configured device: the health check of a plant pot,
\* every other suffix of the dispatch table for a sprinkler.
ExpectedTopics(deviceID) ==
    LET device == Devices[FindDevice(deviceID)]
    IN IF device.Type = "iot_plant_pot" THEN {<<deviceID, "status", "health_check">>}
       ELSE IF device.Type = "iot_sprinkler"
         THEN {<<deviceID>> \o suffix :
                 suffix \in StatusSuffixes \ {<<"status", "health_check">>}}
       ELSE {}

\* C15: every reconnection re-issues the subscription of every status topic of
\* every device that was passed to SubscribeToDeviceTopics before, the devices
\* whose earlier subscribe attempt failed included.
C15_ResubscribeOnReconnect ==
    lastOp.op = "reconnect" =>
      \A deviceID \in passed : ExpectedTopics(deviceID) \subseteq issued

\* A reconnection after a sprinkler whose subscribe failed and a plant pot
\* whose subscribe succeeded were passed: the topics of both are issued again.
C15_Witness ==
    /\ lastOp.op = "reconnect"
    /\ passed = {"spr1", "pot1"}
    /\ "spr1" \in failed
    /\ "pot1" \notin failed
    /\ Cardinality(issued) = 10


\* ------------------------------------------ properties of the entry points

\* Some configured device has the ID.
Configured(deviceID) == \E i \in 1..Len(Devices) : Devices[i].ID = deviceID

\* C16: RunJobForDevice runs the device job of exactly the configured device
\* whose ID matches, once, and returns nil; when no configured device has the
\* ID it runs no device job, publishes nothing and returns `device not found`.
C16_RunSingle ==
    \A r \in RunIds :
      run[r].kind = "single" =>
        IF Configured(run[r].reqID)
          THEN /\ run[r].cur \in 1..Len(Devices)
               /\ Devices[run[r].cur].ID = run[r].reqID
               /\ \A i \in 1..(run[r].cur - 1) : Devices[i].ID # run[r].reqID
               /\ Len(trace[r]) > 0 => trace[r][1].arg = run[r].reqID
               /\ Len(Finished(batch[r])) <= 1
               /\ \A j \in 1..Len(Finished(batch[r])) :
                    Finished(batch[r])[j].arg = run[r].reqID
               /\ run[r].pc = "done" =>
                    run[r].ret = "nil" /\ Len(Finished(batch[r])) = 1
          ELSE /\ run[r].pc = "done"
               /\ run[r].ret = "device not found"
               /\ trace[r] = << >>
               /\ Finished(batch[r]) = << >>
               /\ run[r].hist = 0

\* A run-single request for the sprinkler, the third configured device, has
\* returned after running the sprinkler's job.
C16_Witness ==
    \E r \in RunIds :
      /\ run[r].kind = "single" /\ run[r].pc = "done"
      /\ run[r].reqID = "spr1"
      /\ run[r].ret = "nil"
      /\ Len(trace[r]) > 0 /\ trace[r][1].arg = "spr1"
      /\ \E i \in At(trace[r], "publish") : IsPublish(trace[r][i], "cmd/task/set")

\* C17: when the job of the device requested through run-single fails, the
\* caller of the entry point gets a non-nil error.
C17_RunSingleReportsFailure ==
    \A r \in RunIds :
      ( /\ run[r].kind = "single" /\ run[r].pc = "done"
        /\ \E j \in 1..Len(Finished(batch[r])) : Finished(batch[r])[j].what # "" )
      => run[r].ret # "nil"

\* ----------------------------------- properties of the plant pot's job

\* The job whose calls trace[r] holds is the job of a plant pot.
PlantPotTrace(r) == Len(trace[r]) > 0 /\ trace[r][1].what = "iot_plant_pot"

\* The stored health-check flag of device d.
HealthFlag(d) == d \in DOMAIN deviceStatuses /\ deviceStatuses[d].HealthCheck

IsAnyPublish(x) == x.ev = "publish"
IsSuccess(x) == IsNotify(x, "success")
IsError(x) == IsNotify(x, "error")
IsHealthError(x) == IsNotify(x, "error") /\ x.what = "ERROR: Plant Pot"

\* The step in which the plant pot's job reads the health-check flag, the flag
\* being false.
UnhealthyStep(r) ==
    (run[r].pc = "plant_pot" /\ run'[r] # run[r] /\ ~HealthFlag(Devices[run[r].cur].ID)) =>
      /\ run'[r].pc = "job_end"
      /\ run'[r].err # ""
      /\ Len(trace'[r]) = Len(trace[r]) + 2
      /\ IsNotify(trace'[r][Len(trace[r]) + 1], "info")
      /\ IsError(trace'[r][Len(trace[r]) + 2])
      /\ db' = db

\* A step of the device job of goroutine r, the device being a plant pot or of
\* an unknown type, leaves the history table as it is.
NoRecordStep(r) ==
    ( /\ run[r].pc \in {"job", "plant_pot", "job_end"}
      /\ run'[r] # run[r]
      /\ Devices[run[r].cur].Type # "iot_sprinkler" ) => db' = db

\* C18: a plant pot's job that finds the stored health-check flag false aborts
\* without publishing the trigger command and attempts an error notification;
\* the job never attempts a success notification and no history record is
\* completed for it.
C18_UnhealthyPlantPot ==
    /\ [][\A r \in RunIds : UnhealthyStep(r) /\ NoRecordStep(r)]_vars
    /\ [](\A r \in RunIds :
            (PlantPotTrace(r) /\ Count(trace[r], IsHealthError) > 0) =>
              /\ Count(trace[r], IsAnyPublish) = 0
              /\ Count(trace[r], IsSuccess) = 0
              /\ run[r].hist = 0)

\* The job of the plant pot was aborted on its health check and has returned
\* to runDeviceJob's caller.
C18_Witness ==
    \E r \in RunIds :
      /\ PlantPotTrace(r)
      /\ Count(trace[r], IsHealthError) = 1
      /\ Count(trace[r], IsError) = 2
      /\ run[r].pc \in {"all_loop", "done"}

\* The step in which the plant pot's job reads the health-check flag, the flag
\* being true.
HealthyStep(r) ==
    (run[r].pc = "plant_pot" /\ run'[r] # run[r] /\ HealthFlag(Devices[run[r].cur].ID)) =>
      /\ run'[r].pc = "job_end"
      /\ run'[r].err = ""
      /\ Len(trace'[r]) = Len(trace[r]) + 3
      /\ IsNotify(trace'[r][Len(trace[r]) + 1], "info")
      /\ trace'[r][Len(trace[r]) + 2] =
           Ev("publish", "cmd/trigger_solenoid_valve", "duration",
              Devices[run[r].cur].ScheduleDuration)
      /\ IsSuccess(trace'[r][Len(trace[r]) + 3])
      /\ deviceStatuses' = deviceStatuses
      /\ db' = db

\* The calls of the task loop and of the poll.
IsResetOrPoll(x) == x.ev \in {"reset", "settle", "poll_ok", "poll_timeout"}

\* C19: a plant pot's job that finds the health-check flag true publishes
\* exactly one message, to <id>/cmd/trigger_solenoid_valve with the configured
\* schedule duration, then attempts a success notification; it never resets the
\* status and never enters the poll.
C19_HealthyPlantPot ==
    /\ [][\A r \in RunIds : HealthyStep(r)]_vars
    /\ [](\A r \in RunIds :
            /\ PlantPotTrace(r) =>
                 /\ Count(trace[r], IsAnyPublish) <= 1
                 /\ Count(trace[r], IsResetOrPoll) = 0
                 /\ Count(trace[r], IsSuccess) = Count(trace[r], IsAnyPublish)
            /\ (run[r].cur # 0 /\ Devices[run[r].cur].Type = "iot_plant_pot") =>
                 run[r].pc # "wait")

\* The healthy plant pot's job has published its trigger command with the
\* duration of the configuration.
C19_Witness ==
    \E r \in RunIds :
      /\ PlantPotTrace(r)
      /\ Count(trace[r], IsAnyPublish) = 1
      /\ \E i \in At(trace[r], "publish") :
           trace[r][i].arg = "cmd/trigger_solenoid_valve" /\ trace[r][i].k = 10
      /\ Count(trace[r], IsSuccess) = 1
      /\ run[r].pc = "job_end"

\* A step of the device job of goroutine r, the device being of an unknown
\* type, changes neither the history table nor the status store.
SkipStep(r) ==
    ( /\ run[r].pc \in {"job", "job_end"}
      /\ run'[r] # run[r]
      /\ Devices[run[r].cur].Type \notin {"iot_sprinkler", "iot_plant_pot"} ) =>
      /\ db' = db
      /\ deviceStatuses' = deviceStatuses
      /\ run'[r].pc \in {"job_end", "all_loop", "done"}

\* What C20 says of every state.
UnknownTypeCalls ==
    \A r \in RunIds :
      /\ (Len(trace[r]) > 0 /\ trace[r][1].what \notin {"iot_sprinkler", "iot_plant_pot"}) =>
           /\ Len(trace[r]) = 1
           /\ run[r].hist = 0
           /\ run[r].pc \in {"job_end", "all_loop", "job", "done"}
           /\ run[r].pc = "job_end" => run[r].err = ""
      /\ \A j \in 1..Len(Finished(batch[r])) :
           LET d == Finished(batch[r])[j].arg
           IN (\E i \in 1..Len(Devices) :
                 Devices[i].ID = d /\ Devices[i].Type \notin {"iot_sprinkler", "iot_plant_pot"})
              => /\ Finished(batch[r])[j].what = ""
                 /\ (run[r].kind = "all" /\ run[r].pc = "done" /\ j < Len(Devices)) =>
                      /\ Len(Finished(batch[r])) > j
                      /\ Finished(batch[r])[j + 1].arg = Devices[j + 1].ID

\* C20: a device whose type is neither sprinkler nor plant pot is skipped: its
\* job makes no call at all (no publish, no reset, no history record, no
\* notification), ends without an error, and the batch goes on to the devices
\* after it.
C20_UnknownTypeSkipped ==
    /\ [][\A r \in RunIds : SkipStep(r)]_vars
    /\ []UnknownTypeCalls

\* A batch has ended: the device of an unknown type before the sprinkler was
\* skipped and the sprinkler after it was processed.
C20_Witness ==
    \E r \in RunIds :
      /\ run[r].kind = "all" /\ run[r].pc = "done"
      /\ Len(Finished(batch[r])) = Len(Devices)
      /\ Finished(batch[r])[2].arg = "odd1" /\ Finished(batch[r])[2].what = ""
      /\ Finished(batch[r])[3].arg = "spr1"
      /\ Len(db) = 1

\* ------------------------------------- properties of the history records

\* C21: when the definition of a task cannot be read or cannot be parsed, the
\* history row gets the status TASK_ERROR, an error-severity notification is
\* attempted, nothing is published for that task or for a later one, the job
\* of the device ends with an error and a batch goes on to the next
\* configured device.
C21_TaskLoadError ==
    \A r \in RunIds :
      /\ SprinklerTrace(r) =>
           \A i \in At(trace[r], "load") :
             trace[r][i].arg # "ok" =>
               /\ HistoryOf(r).Status = "TASK_ERROR"
               /\ \E j \in (i + 1)..Len(trace[r]) : IsNotify(trace[r][j], "error")
               /\ \A j \in 1..Len(trace[r]) :
                    ~(IsTaskSet(trace[r][j]) /\ trace[r][j].k >= trace[r][i].k)
               /\ \A j \in (i + 1)..Len(trace[r]) : ~TaskCallFrom(trace[r][j], 1)
               /\ run[r].pc \in {"job_end", "all_loop", "job", "done"}
               /\ run[r].pc = "job_end" => run[r].err = "TASK_ERROR"
               /\ (run[r].kind = "all" /\ run[r].pc # "job_end") =>
                    \E j \in 1..Len(Finished(batch[r])) :
                      /\ Finished(batch[r])[j].arg = TraceDevice(r).ID
                      /\ Finished(batch[r])[j].what = "TASK_ERROR"
      /\ run[r].kind = "all" =>
           \A j \in 1..Len(Finished(batch[r])) :
             LET d == FindDevice(Finished(batch[r])[j].arg)
             IN (Finished(batch[r])[j].what = "TASK_ERROR" /\ d < Len(Devices)) =>
                  /\ run[r].devIdx > d
                  /\ run[r].pc = "done" =>
                       /\ Len(Finished(batch[r])) > j
                       /\ Finished(batch[r])[j + 1].arg = Devices[d + 1].ID

\* A batch has ended whose sprinkler's second task file did not parse, after a
\* first task that was published, and whose device after the sprinkler was
\* processed.
C21_Witness ==
    \E r \in RunIds :
      /\ run[r].kind = "all" /\ run[r].pc = "done"
      /\ \E j \in 1..(Len(Finished(batch[r])) - 1) :
           /\ Finished(batch[r])[j].what = "TASK_ERROR"
           /\ Finished(batch[r])[j].arg = "spr1"
           /\ Finished(batch[r])[j + 1].arg = "odd2"
      /\ \E h \in 1..Len(db) :
           db[h].Status = "TASK_ERROR" /\ db[h].Notes = <<"task file", "unparseable">>

\* Every poll the sprinkler job t had to make succeeded: each axis was found
\* calibrated or its poll returned nil, and the poll of every task of `ids` did.
AllPollsOk(t, ids) ==
    /\ \E i \in 1..Len(t) : IsSkip(t[i], "sprinkler") \/ IsPollOk(t[i], "sprinkler")
    /\ \E i \in 1..Len(t) : IsSkip(t[i], "valve") \/ IsPollOk(t[i], "valve")
    /\ \A k \in 1..Len(ids) : \E i \in 1..Len(t) : IsPollOk(t[i], "task") /\ t[i].k = k

\* The job's success notification.
IsJobCompleted(x) == IsNotify(x, "success") /\ x.what = "Sprinkler Job Completed"

\* processSprinklerDevice has returned.
JobReturned(r) == run[r].pc \in {"job_end", "all_loop", "job", "done"}

\* C22: the history row of a sprinkler job holds `completed`, and the job's
\* success notification was attempted, exactly when every calibration poll
\* the job had to make and the poll of every configured task succeeded; a
\* device without tasks gets there right after calibration, with no reset and
\* no publish to cmd/task/set.
C22_CompletedIffAllPolls ==
    \A r \in RunIds :
      (SprinklerTrace(r) /\ run[r].hist > 0) =>
        LET t == trace[r]
            ids == TraceDevice(r).TaskIDs
            completed == HistoryOf(r).Status = "completed"
            notified == \E i \in 1..Len(t) : IsJobCompleted(t[i])
        IN /\ completed <=> notified
           /\ completed => AllPollsOk(t, ids)
           /\ (AllPollsOk(t, ids) /\ JobReturned(r)) => completed
           /\ Len(ids) = 0 =>
                /\ Count(t, IsReset) = 0
                /\ Count(t, IsTaskSet) = 0
                /\ \A i \in 1..Len(t) :
                     (IsSkip(t[i], "valve") \/ IsPollOk(t[i], "valve")) =>
                       /\ run[r].pc = "tasks" \/ JobReturned(r)
                       /\ JobReturned(r) =>
                            /\ completed
                            /\ t[i + 1].ev = "save" /\ t[i + 1].arg = "completed"

\* A sprinkler without tasks has completed after the polls of its two axes.
C22_Witness ==
    \E r \in RunIds :
      /\ SprinklerTrace(r) /\ run[r].pc = "job_end" /\ run[r].hist > 0
      /\ HistoryOf(r).Status = "completed"
      /\ Len(TraceDevice(r).TaskIDs) = 0
      /\ \E i \in 1..Len(trace[r]) : IsPollOk(trace[r][i], "valve")
      /\ \E i \in 1..Len(trace[r]) : IsPollOk(trace[r][i], "sprinkler")

\* The statuses a job ends its history row with: completed, and the failure
\* statuses of runCalibration and runDeviceTasks.
TerminalStatuses ==
    {"completed", "SPRINKLER_CALIB_TIMEOUT", "VALVE_CALIB_TIMEOUT", "TASK_ERROR",
     "TASK_TIMEOUT"}

\* C23: a history row in a terminal status (completed or a failure status)
\* has its EndedAt set; EndedAt is null only in a row that is not terminal.
C23_TerminalHasEndedAt ==
    \A h \in 1..Len(db) :
      /\ db[h].Status \in TerminalStatuses => db[h].EndedAt
      /\ ~db[h].EndedAt => db[h].Status = "started"

IsSave(x) == x.ev = "save"

\* A step leaves every history row that holds a terminal status as it is.
TerminalRowsKept ==
    \A h \in 1..Len(db) :
      db[h].Status \in TerminalStatuses => (Len(db') >= h /\ db'[h] = db[h])

\* A job saves its history row at most once, and makes no call but a
\* notification after it.
SavedOnce(t) ==
    /\ Count(t, IsSave) <= 1
    /\ \A i \in At(t, "save") : \A j \in (i + 1)..Len(t) : t[j].ev = "notify"

\* C24: once a job has saved its history row with a terminal status the row is
\* not written again, by that job or by another: its status, notes and EndedAt
\* stay as they are, and the job makes no second save.
C24_TerminalRowFrozen ==
    /\ [][TerminalRowsKept]_vars
    /\ [](\A r \in RunIds : SavedOnce(trace[r]))

\* One job has completed and another, for the same device, has ended in a task
\* timeout: both rows are terminal, and the one written first was kept while the
\* other was written.
C24_Witness ==
    \E h1, h2 \in 1..Len(db) :
      /\ db[h1].Status = "completed" /\ db[h1].EndedAt
      /\ db[h2].Status = "TASK_TIMEOUT"
      /\ \A r \in RunIds : run[r].pc \in {"job_end", "done"} /\ Count(trace[r], IsSave) = 1

\* The device job whose calls trace[r] holds is of a recognized type.
RecognizedTrace(r) == SprinklerTrace(r) \/ PlantPotTrace(r)

\* C25: a device job of a recognized type (sprinkler or plant pot) has created
\* one history row with status started before its first command is published.
C25_HistoryAtJobStart ==
    \A r \in RunIds :
      RecognizedTrace(r) =>
        /\ Count(trace[r], LAMBDA x : x.ev = "create") <= 1
        /\ \A i \in At(trace[r], "publish") :
             \E j \in 1..(i - 1) : trace[r][j].ev = "create" /\ trace[r][j].arg = "started"
        /\ JobReturned(r) => run[r].hist > 0

\* ------------------------------- properties of the notification client

\* The last call was one of the Safe operations.
SafeSend == lastSend.op \in SafeOps

\* C26: a send attempt made through any of the four send operations while the
\* client is in a backoff window does not reach the transport, and the Safe
\* operations return false.
C26_DroppedInBackoff ==
    (lastSend.op # "none" /\ lastSend.before > 0) =>
      /\ ~lastSend.posted
      /\ SafeSend => lastSend.ret = "false"

\* The text, whatever its case, holds the token tok.
HasToken(text, tok) ==
    \E i \in 1..(Len(text) - 1) :
      LowerAtom(text[i]) = tok[1] /\ LowerAtom(text[i + 1]) = tok[2]

HasGenericToken(text) ==
    HasToken(text, <<"rate_", "limited">>) \/ HasToken(text, <<"too_many_", "requests">>)

HasLimitToken(text) == HasToken(text, <<"message_", "limit_exceeded">>)

\* The last call handed its message to the transport, which failed it.
SendFailed == lastSend.posted /\ lastSend.err # NoError

C28_WindowEnds ==
    ( /\ lastSend.op # "none"
      /\ window.dur > 0
      /\ lastSend.at >= window.start + window.dur ) => lastSend.posted

\* C29: a send error is taken for a rate-limit error exactly when its text,
\* whatever its case, holds rate_limited, message_limit_exceeded or
\* too_many_requests; such an error starts a backoff, and any other error
\* leaves the backoff as it was when the message was handed to the transport.
C29_Classification ==
    SendFailed =>
      LET tok == HasGenericToken(lastSend.err) \/ HasLimitToken(lastSend.err)
      IN /\ tok <=> isRateLimitError(lastSend.err)
         /\ tok => (lastSend.after > 0 /\ window.start = lastSend.at)
         /\ ~tok => lastSend.after = lastSend.atPost

\* A send failed with a token spelled in upper case and started a backoff.
C29_Witness ==
    /\ SendFailed
    /\ ToLower(lastSend.err) # lastSend.err
    /\ HasGenericToken(lastSend.err)
    /\ lastSend.after > 0
    /\ slackClient.rateLimitBackoff > 0

\* ------------------------- properties of the scheduler's notifications

\* The status a sprinkler job's row is to hold once the job has returned, from
\* the job's calls other than its notifications.
ExpectedStatus(t) ==
    IF \E i \in 1..Len(t) : IsPollTimeout(t[i], "sprinkler") THEN "started"
    ELSE IF \E i \in 1..Len(t) : IsPollTimeout(t[i], "valve") THEN "VALVE_CALIB_TIMEOUT"
    ELSE IF \E i \in 1..Len(t) : IsPollTimeout(t[i], "task") THEN "TASK_TIMEOUT"
    ELSE IF \E i \in 1..Len(t) : t[i].ev = "load" /\ t[i].arg # "ok" THEN "TASK_ERROR"
    ELSE "completed"

\* The job returns an error.
ExpectedFailure(t) ==
    \E i \in 1..Len(t) :
      t[i].ev = "poll_timeout" \/ (t[i].ev = "load" /\ t[i].arg # "ok")

\* C30: whatever becomes of the notifications (sent, failed by the transport,
\* suppressed by the backoff, or no client configured), a device job publishes
\* its commands in the same gated order, leaves the status in its history row
\* and returns the error that its polls and task files determine.
C30_NotifyIndependent ==
    \A r \in RunIds :
      /\ \A i \in 1..Len(trace[r]) :
           trace[r][i].ev = "notify" => trace[r][i].res = notifyResult
      /\ SprinklerTrace(r) =>
           /\ GatedOrder(trace[r], TraceDevice(r).TaskIDs)
           /\ \A i, j \in At(trace[r], "publish") :
                (trace[r][i].arg = trace[r][j].arg /\ trace[r][i].k = trace[r][j].k) => i = j
           /\ (JobReturned(r) /\ run[r].hist > 0) =>
                /\ HistoryOf(r).Status = ExpectedStatus(trace[r])
                /\ run[r].pc = "job_end" => (run[r].err # "" <=> ExpectedFailure(trace[r]))
      /\ PlantPotTrace(r) =>
           /\ Count(trace[r], IsAnyPublish) <= 1
           /\ run[r].pc = "job_end" =>
                (run[r].err = "" <=> Count(trace[r], IsAnyPublish) = 1)

\* A sprinkler job whose notifications were all suppressed has completed its
\* two tasks.
C30_Witness ==
    \E r \in RunIds :
      /\ notifyResult = "suppressed"
      /\ SprinklerTrace(r) /\ run[r].pc = "job_end" /\ run[r].hist > 0
      /\ HistoryOf(r).Status = "completed"
      /\ Count(trace[r], IsTaskSet) = 2
      /\ \E i \in 1..Len(trace[r]) :
           IsJobCompleted(trace[r][i]) /\ trace[r][i].res = "suppressed"

\* ------------------------------- properties of the jobs' notifications

\* The entry of the batch for the device job whose calls trace[r] holds, once
\* runDeviceJob has returned: the job that finished last.
LastFinished(r) == Finished(batch[r])[Len(Finished(batch[r]))]

\* runDeviceJob has returned from the job whose calls trace[r] holds.
DeviceJobOver(r) ==
    /\ Len(trace[r]) > 0
    /\ run[r].pc \in {"all_loop", "job", "done"}
    /\ Len(Finished(batch[r])) > 0
    /\ LastFinished(r).arg = trace[r][1].arg

\* C37: a run started through RunJobForDevice attempts the success
\* notification `Manual Run Completed` only if the job of the requested device
\* finished without error.
C37_SuccessOnlyIfJobOk ==
    \A r \in RunIds :
      ( /\ run[r].kind = "single"
        /\ \E i \in 1..Len(batch[r]) :
             IsSuccess(batch[r][i]) /\ batch[r][i].what = "Manual Run Completed for device" )
      => \A j \in 1..Len(Finished(batch[r])) : Finished(batch[r])[j].what = ""

\* The job whose calls t holds failed: a poll timed out, a task file did not
\* load, or the plant pot was found unhealthy.
JobFailed(t) ==
    \E i \in 1..Len(t) :
      \/ t[i].ev = "poll_timeout"
      \/ t[i].ev = "load" /\ t[i].arg # "ok"
      \/ IsHealthError(t[i])

\* The error notification runDeviceJob makes for an error that was returned.
IsDeviceError(x) == IsNotify(x, "error") /\ x.what = "ERROR: Device"

\* C39: a device job that failed (calibration timeout, task timeout, task
\* error, failed health check of a plant pot) has attempted exactly two error
\* notifications once runDeviceJob has returned, one by the phase that failed
\* and then one by runDeviceJob; a job that succeeded has attempted none.
C39_TwoErrorNotifications ==
    \A r \in RunIds :
      /\ (Len(trace[r]) > 0 /\ run[r].pc = "job_end") =>
           /\ run[r].err # "" <=> JobFailed(trace[r])
           /\ Count(trace[r], IsError) = IF JobFailed(trace[r]) THEN 1 ELSE 0
           /\ Count(trace[r], IsDeviceError) = 0
      /\ DeviceJobOver(r) =>
           /\ LastFinished(r).what # "" <=> JobFailed(trace[r])
           /\ Count(trace[r], IsError) = IF JobFailed(trace[r]) THEN 2 ELSE 0
           /\ JobFailed(trace[r]) =>
                /\ IsDeviceError(trace[r][Len(trace[r])])
                /\ Count(trace[r], IsDeviceError) = 1

\* In a batch runDeviceJob has returned from the sprinkler's job, which timed
\* out in a task, and the job's calls hold two error notifications.
C39_Witness ==
    \E r \in RunIds :
      /\ run[r].kind = "all" /\ run[r].pc = "all_loop"
      /\ DeviceJobOver(r)
      /\ SprinklerTrace(r)
      /\ LastFinished(r).what = "TASK_TIMEOUT"
      /\ Count(trace[r], IsError) = 2

\* ------------------------------------------------ properties of the poll

\* Goroutine r's poll returns nil in this step.
PollReturnsNil(r) ==
    /\ Len(trace'[r]) = Len(trace[r]) + 1
    /\ trace'[r][Len(trace'[r])].ev = "poll_ok"

\* C34: waitForFlag evaluates its predicate at the ticks of its ticker only,
\* the first of them a tick interval after the poll started; a poll whose
\* timeout does not exceed the tick interval (a task with timeoutMinutes = 0)
\* ends in a timeout whatever the flag is when the poll starts.
C34_NoEvaluationBeforeFirstTick ==
    [][\A r \in RunIds :
         /\ PollReturnsNil(r) =>
              /\ run[r].pc = "wait"
              /\ run[r].elapsed + TickInterval <= run[r].timeout
              /\ checkFunc(run[r].flag, GetDeviceStatus(deviceStatuses, Device(r).ID))
         /\ ( /\ run[r].pc = "wait"
              /\ run[r].timeout <= TickInterval
              /\ run'[r] # run[r] ) =>
              /\ run'[r].pc = "job_end"
              /\ run'[r].err = TimeoutStatus(run[r].flag)
              /\ trace'[r][Len(trace'[r]) - 2].ev = "poll_timeout"
       ]_vars

\* A task's poll with a timeout of zero has started while the store holds
\* taskAllComplete = true for the device, reported since the task's reset.
C34_Witness ==
    \E r \in RunIds :
      /\ run[r].pc = "wait" /\ run[r].flag = "task"
      /\ run[r].timeout = 0 /\ run[r].elapsed = 0
      /\ completionSince[r]
      /\ checkFunc("task", GetDeviceStatus(deviceStatuses, Device(r).ID))

\* ------------------------------------- frame of a dispatched message

\* The last call on the store was the dispatch of a message with a suffix of
\* the dispatch table and a payload that parses for its field.
ParsedMessage ==
    /\ lastOp.op = "message"
    /\ Len(lastOp.parts) >= 3
    /\ Recognized(lastOp.parts)
    /\ ParsedOk(lastOp.parts, lastOp.payload)

\* C38: a recognized, parseable status message for device A with suffix S
\* changes the one snapshot field S maps to, in A's snapshot only: every other
\* field of A's snapshot and every snapshot of another device is as before.
C38_OneFieldOneDevice ==
    ParsedMessage =>
      LET A == lastOp.id
          before == GetDeviceStatus(lastOp.before, A)
          after == GetDeviceStatus(deviceStatuses, A)
      IN /\ DOMAIN deviceStatuses = DOMAIN lastOp.before \cup {A}
         /\ \A d \in DOMAIN lastOp.before \ {A} : deviceStatuses[d] = lastOp.before[d]
         /\ DOMAIN after = DOMAIN before
         /\ \A f \in DOMAIN after \ {FieldOf(lastOp.parts)} : after[f] = before[f]
         /\ after[FieldOf(lastOp.parts)] = ParsedValue(lastOp.parts, lastOp.payload)

\* The boolean fields of a snapshot.
FlagFields ==
    {"HealthCheck", "SprinklerCalibComplete", "ValveCalibComplete", "ValveIsAtTarget",
     "TaskAllComplete"}

\* A message was dispatched for a device whose snapshot held another flag, while
\* the store held the snapshot of another device with a flag set.
C38_Witness ==
    /\ ParsedMessage
    /\ lastOp.id \in DOMAIN lastOp.before
    /\ FieldOf(lastOp.parts) \in FlagFields
    /\ \E f \in FlagFields \ {FieldOf(lastOp.parts)} : lastOp.before[lastOp.id][f]
    /\ \E d \in DOMAIN lastOp.before \ {lastOp.id} :
         \E f \in FlagFields : lastOp.before[d][f]
    /\ deviceStatuses[lastOp.id][FieldOf(lastOp.parts)]


\* ------------------------------------ overlapping runs and the status store

\* C33: while a goroutine is between its task publish and the end of that
\* task's poll, a taskAllComplete=true report dispatched for its device since the
\* publish stays in the store: no other run's reset erases the flag before the
\* poll has observed it.
C33_ReportNotErased ==
    \A r \in RunIds :
      (/\ run[r].pc \in {"task_settle", "wait"}
       /\ run[r].pc = "wait" => run[r].flag = "task"
       /\ reportedSince[r]) =>
        GetDeviceStatus(deviceStatuses, Device(r).ID).TaskAllComplete

\* The calibration flag of the axis, as stored for the device.
StoredCalib(deviceID, axis) ==
    AlreadyCalibrated(axis, GetDeviceStatus(deviceStatuses, deviceID))

\* The job of goroutine r began a task: it reset the status of its device.
BeganTask(r) == At(trace[r], "reset") # {}

\* The topic suffix of the home command of an axis.
HomeTopic(axis) ==
    IF axis = "sprinkler" THEN "cmd/sprinkler/home" ELSE "cmd/valve/home"

\* The job of goroutine r published the home command of the axis.
PublishedHome(r, axis) ==
    \E i \in At(trace[r], "publish") : trace[r][i].arg = HomeTopic(axis)

\* Goroutine r is at runCalibration's test for the axis.
AtCalibration(r, axis) ==
    \/ axis = "sprinkler" /\ run[r].pc = "calib_sprinkler"
    \/ axis = "valve" /\ run[r].pc = "calib_valve"

\* C35: a stored calibration flag is true only when the last calib_complete
\* message of that axis since the device's last reset parsed as true, so after a
\* job that began a task the flags are false unless such a message followed; and a
\* job that reaches the calibration of an axis with no such message since the last
\* reset publishes the home command of the axis instead of skipping it.
C35_ResetClearsCalibration ==
    /\ [](\A i \in 1..Len(Devices), axis \in {"sprinkler", "valve"} :
            StoredCalib(Devices[i].ID, axis) => <<Devices[i].ID, axis>> \in calibSince)
    /\ [][\A r \in RunIds, axis \in {"sprinkler", "valve"} :
            (/\ AtCalibration(r, axis)
             /\ run'[r].pc # run[r].pc
             /\ <<Device(r).ID, axis>> \notin calibSince) =>
              /\ Len(trace'[r]) = Len(trace[r]) + 1
              /\ trace'[r][Len(trace'[r])].ev = "publish"
              /\ trace'[r][Len(trace'[r])].arg = HomeTopic(axis)]_vars

\* One job of the sprinkler began a task and is over; another job of the same
\* sprinkler, begun later, has published the home command of both axes and
\* starts its poll for the valve, no valve calib_complete message having been
\* dispatched since the device's last reset.
C35_Witness ==
    \E r1, r2 \in RunIds :
      /\ r1 # r2
      /\ run[r1].cur = run[r2].cur
      /\ run[r1].hist < run[r2].hist
      /\ BeganTask(r1)
      /\ run[r1].pc = "job_end"
      /\ PublishedHome(r2, "sprinkler")
      /\ PublishedHome(r2, "valve")
      /\ run[r2].pc = "wait" /\ run[r2].flag = "valve" /\ run[r2].elapsed = 0
      /\ <<Device(r2).ID, "valve">> \notin calibSince


\* ------------------------------------------- backoff windows and their timers

\* The step is the wake-up of a goroutine that handleRateLimit started.
TimerStep ==
    /\ slackClient'.timers # slackClient.timers
    /\ slackClient'.timers \subseteq slackClient.timers

\* C36: a backoff window entered at t with duration D keeps IsRateLimited true
\* until t+D: while the clock is before t+D and the client is rate limited, the
\* wake-up of a goroutine started for another window leaves it rate limited.
C36_WindowOutlivesOtherTimers ==
    [][(/\ TimerStep
        /\ window.dur > 0
        /\ clock < window.start + window.dur
        /\ IsRateLimited(slackClient)) => IsRateLimited(slackClient')]_vars


\* ------------------------------------------------ the unconfigured client

\* C31: NewClient returns the nil client whenever the token or the channel ID
\* is not set, and on the nil client every send operation is a no-op: PostMessage
\* is not called, the call returns normally leaving the client nil and not rate
\* limited, and the Safe variants return false.
C31_UnconfiguredIsNoOp ==
    /\ \A token \in Tokens, channelID \in ChannelIDs :
         (token = "" \/ channelID = "") => IsNil(NewClient(token, channelID))
    /\ IsNil(slackClient) =>
         /\ ~IsRateLimited(slackClient)
         /\ lastSend.op # "none" =>
              /\ ~lastSend.posted
              /\ lastSend.ret = IF lastSend.op \in SafeOps THEN "false" ELSE "none"
              /\ lastSend.before = 0 /\ lastSend.after = 0

\* A Safe variant was called on the nil client, after another call on it.
C31_Witness ==
    /\ IsNil(slackClient)
    /\ lastSend.op \in SafeOps
    /\ slackOps = 2


\* ------------------------------------------------------ the trigger endpoint

\* The body of the request is not JSON.
FailsToParse(body) == body = "malformed"

\* The deviceId the body of the request gives, "" when it gives none.
BodyDeviceID(body) == IF body \in RequestIDs THEN body ELSE ""

\* The call of the last go statement.
LastCall == goCalls[Len(goCalls)]

\* C40: the endpoint starts no run for a request that is not a POST or whose
\* body is not JSON; for any other POST it starts exactly one run, run-single for
\* the body's deviceId when that is not empty and run-all otherwise, and answers
\* 202 while that run has not begun.
C40_TriggerEndpoint ==
    lastRequest.method # "" =>
      IF lastRequest.method # "POST" \/ FailsToParse(lastRequest.body)
        THEN lastRequest.spawned = 0 /\ lastRequest.code # StatusAccepted
        ELSE /\ lastRequest.spawned = 1
             /\ lastRequest.code = StatusAccepted
             /\ lastRequest.waiting >= 1
             /\ LastCall = IF BodyDeviceID(lastRequest.body) # ""
                             THEN [fn |-> "RunJobForDevice",
                                   id |-> BodyDeviceID(lastRequest.body)]
                             ELSE [fn |-> "RunAllJobsOnce", id |-> ""]


\* ------------------------------------- messages that race with a reset

\* The last call that finished on the store of SpecRace was the dispatch of a
\* message with a suffix of the dispatch table and a payload that parses for its
\* field, for a device that had been reset before.
DoneAfterReset ==
    /\ lastDone.op = "message"
    /\ Len(lastDone.parts) >= 3
    /\ Recognized(lastDone.parts)
    /\ ParsedOk(lastDone.parts, lastDone.payload)
    /\ lastDone.id \in lastDone.resets

\* C32: once the dispatch of a recognized, parseable message has finished for a
\* device that was reset before, and until another message or reset finishes, the
\* snapshot GetDeviceStatus returns for the device holds the message's value in
\* the field of its topic; and the object the handler wrote to was the one the
\* store held for the device when it wrote.
C32_VisibleAfterReset ==
    DoneAfterReset =>
      /\ LoadStatus(lastDone.id)[FieldOf(lastDone.parts)] =
           ParsedValue(lastDone.parts, lastDone.payload)
      /\ lastDone.addr = lastDone.heldAddr
====
